---- MODULE Spec2Model ----
(***************************************************************************)
(* The /find-meeting-slots handler of the sales-tool server: input         *)
(* validation, location resolution, zone validation, the 3-day slot search *)
(* and the rendering of the response.                                      *)
(*                                                                         *)
(* A JavaScript string is a sequence of one-character strings, so that     *)
(* split, trim, toLowerCase and parseInt are computed and not assumed.     *)
(* An instant is a number of minutes since an arbitrary UTC midnight.      *)
(***************************************************************************)
EXTENDS Integers, Sequences, FiniteSets, TLC

----------------------------------------------------------------------------
(* Bounds of the model *)

\* the largest number of comma-separated pieces of a leadLocations string
MaxPieces == 2

----------------------------------------------------------------------------
(* Program constants *)

HorizonDays == 3
StartHour == 9
EndHour == 17
LeadStartHour == 9
LeadEndHour == 17
DefaultDuration == 30
BadRequest == 400
Ok == 200

----------------------------------------------------------------------------
(* JavaScript strings *)

UpperChars == <<"A","B","C","D","E","F","G","H","I","J","K","L","M",
                "N","O","P","Q","R","S","T","U","V","W","X","Y","Z">>
LowerChars == <<"a","b","c","d","e","f","g","h","i","j","k","l","m",
                "n","o","p","q","r","s","t","u","v","w","x","y","z">>
DigitChars == <<"0","1","2","3","4","5","6","7","8","9">>

LowerOf == [c \in {UpperChars[i] : i \in DOMAIN UpperChars} |->
               LowerChars[CHOOSE i \in DOMAIN UpperChars : UpperChars[i] = c]]

LowerChar(c) == IF c \in DOMAIN LowerOf THEN LowerOf[c] ELSE c

\* String.prototype.toLowerCase
ToLowerCase(s) == [i \in 1..Len(s) |-> LowerChar(s[i])]

IsSpace(c) == c \in {" ", "\t"}

RECURSIVE TrimStart(_)
TrimStart(s) == IF s # <<>> /\ IsSpace(Head(s)) THEN TrimStart(Tail(s)) ELSE s

RECURSIVE TrimEnd(_)
TrimEnd(s) ==
    IF s # <<>> /\ IsSpace(s[Len(s)]) THEN TrimEnd(SubSeq(s, 1, Len(s) - 1)) ELSE s

\* String.prototype.trim
Trim(s) == TrimEnd(TrimStart(s))

\* encodeURIComponent: a letter, a digit or one of - _ . ! ~ * ' ( ) stays,
\* every other character becomes % and its two hexadecimal digits
Unreserved ==
    {UpperChars[i] : i \in DOMAIN UpperChars}
        \cup {LowerChars[i] : i \in DOMAIN LowerChars}
        \cup {DigitChars[i] : i \in DOMAIN DigitChars}
        \cup {"-", "_", ".", "!", "~", "*", "'", "(", ")"}

HexOf == [c \in {"\t", " ", "%", "+", ",", "/", ":"} |->
            CASE c = "\t" -> <<"0", "9">>
              [] c = " " -> <<"2", "0">>
              [] c = "%" -> <<"2", "5">>
              [] c = "+" -> <<"2", "B">>
              [] c = "," -> <<"2", "C">>
              [] c = "/" -> <<"2", "F">>
              [] c = ":" -> <<"3", "A">>]

\* the escaping of encodeURIComponent, character by character
RECURSIVE PercentEncode(_)
PercentEncode(s) ==
    IF s = <<>> THEN <<>>
    ELSE (IF Head(s) \in Unreserved THEN <<Head(s)>> ELSE <<"%">> \o HexOf[Head(s)])
             \o PercentEncode(Tail(s))

\* String.prototype.split(','): "" splits into one empty piece
RECURSIVE Split(_)
Split(s) ==
    IF \E i \in 1..Len(s) : s[i] = ","
    THEN LET i == CHOOSE k \in 1..Len(s) :
                     s[k] = "," /\ \A j \in 1..(k - 1) : s[j] # ","
         IN  <<SubSeq(s, 1, i - 1)>> \o Split(SubSeq(s, i + 1, Len(s)))
    ELSE <<s>>

\* the pieces joined by commas: the string that Split takes apart
RECURSIVE Join(_)
Join(pieces) ==
    IF Len(pieces) = 0 THEN <<>>
    ELSE IF Len(pieces) = 1 THEN pieces[1]
    ELSE pieces[1] \o <<",">> \o Join(Tail(pieces))

----------------------------------------------------------------------------
(* JavaScript values of the request body *)

Undefined == [type |-> "undefined", str |-> <<>>, num |-> 0]
Num(n) == [type |-> "number", str |-> <<>>, num |-> n]
Str(s) == [type |-> "string", str |-> s, num |-> 0]

\* !!v
Truthy(v) ==
    CASE v.type = "undefined" -> FALSE
      [] v.type = "number" -> v.num # 0
      [] v.type = "string" -> v.str # <<>>

\* the check without its trim
IsBlankNoTrim(v) == ~Truthy(v) \/ v.type # "string"

\* !v || typeof v !== 'string' || v.trim().length === 0
IsBlank(v) == ~Truthy(v) \/ v.type # "string" \/ Len(Trim(v.str)) = 0

NaN == [nan |-> TRUE, val |-> 0]

RECURSIVE ParseDigits(_, _, _)
ParseDigits(s, acc, seen) ==
    IF s # <<>> /\ \E i \in DOMAIN DigitChars : DigitChars[i] = Head(s)
    THEN ParseDigits(Tail(s),
                     10 * acc + (CHOOSE i \in DOMAIN DigitChars :
                                     DigitChars[i] = Head(s)) - 1,
                     TRUE)
    ELSE IF seen THEN [nan |-> FALSE, val |-> acc] ELSE NaN

\* parseInt(v, 10): leading white space, an optional sign, the longest
\* prefix of digits; NaN when there is no digit. An integer number parses
\* to itself.
ParseInt(v) ==
    CASE v.type = "undefined" -> NaN
      [] v.type = "number" -> [nan |-> FALSE, val |-> v.num]
      [] v.type = "string" ->
            LET t == TrimStart(v.str)
            IN  IF t # <<>> /\ Head(t) = "-"
                THEN LET p == ParseDigits(Tail(t), 0, FALSE)
                     IN  [nan |-> p.nan, val |-> 0 - p.val]
                ELSE IF t # <<>> /\ Head(t) = "+"
                THEN ParseDigits(Tail(t), 0, FALSE)
                ELSE ParseDigits(t, 0, FALSE)

\* the default of an hour in the place of the half hour
DurationDefault60(callDuration) ==
    LET p == ParseInt(callDuration)
    IN  IF p.nan \/ p.val = 0 THEN 2 * DefaultDuration ELSE p.val

\* parseInt(callDuration, 10) || 30
Duration(callDuration) ==
    LET p == ParseInt(callDuration)
    IN  IF p.nan \/ p.val = 0 THEN DefaultDuration ELSE p.val

\* Math.ceil(duration/60)
CeilHours(duration) == 0 - ((0 - duration) \div 60)

----------------------------------------------------------------------------
(* The city table and the resolution of the lead locations *)

CityToTz == <<
    [city |-> <<"n","e","w"," ","y","o","r","k">>, tz |-> <<"A","m","e","r","i","c","a","/","N","e","w","_","Y","o","r","k">>],
    [city |-> <<"l","o","n","d","o","n">>, tz |-> <<"E","u","r","o","p","e","/","L","o","n","d","o","n">>],
    [city |-> <<"m","u","m","b","a","i">>, tz |-> <<"A","s","i","a","/","K","o","l","k","a","t","a">>],
    [city |-> <<"s","a","n"," ","f","r","a","n","c","i","s","c","o">>, tz |-> <<"A","m","e","r","i","c","a","/","L","o","s","_","A","n","g","e","l","e","s">>],
    [city |-> <<"b","e","r","l","i","n">>, tz |-> <<"E","u","r","o","p","e","/","B","e","r","l","i","n">>],
    [city |-> <<"s","y","d","n","e","y">>, tz |-> <<"A","u","s","t","r","a","l","i","a","/","S","y","d","n","e","y">>],
    [city |-> <<"t","o","k","y","o">>, tz |-> <<"A","s","i","a","/","T","o","k","y","o">>],
    [city |-> <<"s","i","n","g","a","p","o","r","e">>, tz |-> <<"A","s","i","a","/","S","i","n","g","a","p","o","r","e">>],
    [city |-> <<"p","a","r","i","s">>, tz |-> <<"E","u","r","o","p","e","/","P","a","r","i","s">>],
    [city |-> <<"c","h","i","c","a","g","o">>, tz |-> <<"A","m","e","r","i","c","a","/","C","h","i","c","a","g","o">>],
    [city |-> <<"d","e","l","h","i">>, tz |-> <<"A","s","i","a","/","K","o","l","k","a","t","a">>],
    [city |-> <<"b","o","s","t","o","n">>, tz |-> <<"A","m","e","r","i","c","a","/","N","e","w","_","Y","o","r","k">>],
    [city |-> <<"l","o","s"," ","a","n","g","e","l","e","s">>, tz |-> <<"A","m","e","r","i","c","a","/","L","o","s","_","A","n","g","e","l","e","s">>],
    [city |-> <<"t","o","r","o","n","t","o">>, tz |-> <<"A","m","e","r","i","c","a","/","T","o","r","o","n","t","o">>],
    [city |-> <<"d","u","b","a","i">>, tz |-> <<"A","s","i","a","/","D","u","b","a","i">>],
    [city |-> <<"s","h","a","n","g","h","a","i">>, tz |-> <<"A","s","i","a","/","S","h","a","n","g","h","a","i">>],
    [city |-> <<"h","o","n","g"," ","k","o","n","g">>, tz |-> <<"A","s","i","a","/","H","o","n","g","_","K","o","n","g">>],
    [city |-> <<"s","e","o","u","l">>, tz |-> <<"A","s","i","a","/","S","e","o","u","l">>],
    [city |-> <<"a","m","s","t","e","r","d","a","m">>, tz |-> <<"E","u","r","o","p","e","/","A","m","s","t","e","r","d","a","m">>],
    [city |-> <<"z","u","r","i","c","h">>, tz |-> <<"E","u","r","o","p","e","/","Z","u","r","i","c","h">>],
    [city |-> <<"m","a","d","r","i","d">>, tz |-> <<"E","u","r","o","p","e","/","M","a","d","r","i","d">>],
    [city |-> <<"r","o","m","e">>, tz |-> <<"E","u","r","o","p","e","/","R","o","m","e">>],
    [city |-> <<"i","s","t","a","n","b","u","l">>, tz |-> <<"E","u","r","o","p","e","/","I","s","t","a","n","b","u","l">>],
    [city |-> <<"j","o","h","a","n","n","e","s","b","u","r","g">>, tz |-> <<"A","f","r","i","c","a","/","J","o","h","a","n","n","e","s","b","u","r","g">>],
    [city |-> <<"s","a","o"," ","p","a","u","l","o">>, tz |-> <<"A","m","e","r","i","c","a","/","S","a","o","_","P","a","u","l","o">>],
    [city |-> <<"m","e","x","i","c","o"," ","c","i","t","y">>, tz |-> <<"A","m","e","r","i","c","a","/","M","e","x","i","c","o","_","C","i","t","y">>],
    [city |-> <<"v","a","n","c","o","u","v","e","r">>, tz |-> <<"A","m","e","r","i","c","a","/","V","a","n","c","o","u","v","e","r">>],
    [city |-> <<"b","e","n","g","a","l","u","r","u">>, tz |-> <<"A","s","i","a","/","K","o","l","k","a","t","a">>] >>

\* cityToTz[key]: the zone of the key, or the empty string for undefined
CityLookup(key) ==
    IF \E i \in DOMAIN CityToTz : CityToTz[i].city = key
    THEN CityToTz[CHOOSE i \in DOMAIN CityToTz : CityToTz[i].city = key].tz
    ELSE <<>>

\* the tokens without the trimming: split(',').filter(Boolean)
LeadTzsNoTrim(leadLocations) ==
    SelectSeq(Split(leadLocations), LAMBDA p : p # <<>>)

\* the tokens without the filter: split(',').map(s => s.trim())
LeadTzsKeepEmpty(leadLocations) ==
    LET pieces == Split(leadLocations)
    IN  [i \in 1..Len(pieces) |-> Trim(pieces[i])]

\* leadLocations.split(',').map(s => s.trim()).filter(Boolean)
LeadTzs(leadLocations) ==
    LET pieces == Split(leadLocations)
        trimmed == [i \in 1..Len(pieces) |-> Trim(pieces[i])]
    IN  SelectSeq(trimmed, LAMBDA p : p # <<>>)

\* the lookup of the token as it was typed: cityToTz[tz] || tz || 'UTC'
ResolveTzCaseSensitive(tz) ==
    LET hit == CityLookup(tz)
    IN  IF hit # <<>> THEN hit ELSE IF tz # <<>> THEN tz ELSE <<"U","T","C">>

\* cityToTz[tz.toLowerCase()] || tz || 'UTC'
ResolveTz(tz) ==
    LET hit == CityLookup(ToLowerCase(tz))
    IN  IF hit # <<>> THEN hit ELSE IF tz # <<>> THEN tz ELSE <<"U","T","C">>

ResolvedTzs(leadTzs) == [i \in 1..Len(leadTzs) |-> ResolveTz(leadTzs[i])]

----------------------------------------------------------------------------
(* The zone database behind luxon's DateTime: each zone the city table     *)
(* names, and UTC, with its standard offset in minutes and the             *)
(* daylight-saving rule it follows.                                        *)

ZoneDb == {
    [name |-> <<"U","T","C">>, std |-> 0, rule |-> "none"],
    [name |-> <<"A","m","e","r","i","c","a","/","N","e","w","_","Y","o","r","k">>, std |-> 0 - 300, rule |-> "us"],
    [name |-> <<"A","m","e","r","i","c","a","/","T","o","r","o","n","t","o">>, std |-> 0 - 300, rule |-> "us"],
    [name |-> <<"A","m","e","r","i","c","a","/","C","h","i","c","a","g","o">>, std |-> 0 - 360, rule |-> "us"],
    [name |-> <<"A","m","e","r","i","c","a","/","M","e","x","i","c","o","_","C","i","t","y">>, std |-> 0 - 360, rule |-> "none"],
    [name |-> <<"A","m","e","r","i","c","a","/","L","o","s","_","A","n","g","e","l","e","s">>, std |-> 0 - 480, rule |-> "us"],
    [name |-> <<"A","m","e","r","i","c","a","/","V","a","n","c","o","u","v","e","r">>, std |-> 0 - 480, rule |-> "us"],
    [name |-> <<"A","m","e","r","i","c","a","/","S","a","o","_","P","a","u","l","o">>, std |-> 0 - 180, rule |-> "none"],
    [name |-> <<"E","u","r","o","p","e","/","L","o","n","d","o","n">>, std |-> 0, rule |-> "eu"],
    [name |-> <<"E","u","r","o","p","e","/","B","e","r","l","i","n">>, std |-> 60, rule |-> "eu"],
    [name |-> <<"E","u","r","o","p","e","/","P","a","r","i","s">>, std |-> 60, rule |-> "eu"],
    [name |-> <<"E","u","r","o","p","e","/","A","m","s","t","e","r","d","a","m">>, std |-> 60, rule |-> "eu"],
    [name |-> <<"E","u","r","o","p","e","/","Z","u","r","i","c","h">>, std |-> 60, rule |-> "eu"],
    [name |-> <<"E","u","r","o","p","e","/","M","a","d","r","i","d">>, std |-> 60, rule |-> "eu"],
    [name |-> <<"E","u","r","o","p","e","/","R","o","m","e">>, std |-> 60, rule |-> "eu"],
    [name |-> <<"E","u","r","o","p","e","/","I","s","t","a","n","b","u","l">>, std |-> 180, rule |-> "none"],
    [name |-> <<"A","f","r","i","c","a","/","J","o","h","a","n","n","e","s","b","u","r","g">>, std |-> 120, rule |-> "none"],
    [name |-> <<"A","s","i","a","/","D","u","b","a","i">>, std |-> 240, rule |-> "none"],
    [name |-> <<"A","s","i","a","/","K","o","l","k","a","t","a">>, std |-> 330, rule |-> "none"],
    [name |-> <<"A","s","i","a","/","S","i","n","g","a","p","o","r","e">>, std |-> 480, rule |-> "none"],
    [name |-> <<"A","s","i","a","/","S","h","a","n","g","h","a","i">>, std |-> 480, rule |-> "none"],
    [name |-> <<"A","s","i","a","/","H","o","n","g","_","K","o","n","g">>, std |-> 480, rule |-> "none"],
    [name |-> <<"A","s","i","a","/","S","e","o","u","l">>, std |-> 540, rule |-> "none"],
    [name |-> <<"A","s","i","a","/","T","o","k","y","o">>, std |-> 540, rule |-> "none"],
    [name |-> <<"A","u","s","t","r","a","l","i","a","/","S","y","d","n","e","y">>, std |-> 600, rule |-> "au"] }

\* the zones by name, and by lower-case name: zone names are matched
\* without regard to case
ZoneByName == [n \in {z.name : z \in ZoneDb} |-> CHOOSE z \in ZoneDb : z.name = n]
ZoneByLowerName ==
    [n \in {ToLowerCase(z.name) : z \in ZoneDb} |->
        CHOOSE z \in ZoneDb : ToLowerCase(z.name) = n]

\* encodeURIComponent(s); the escaped forms of the zone names are
\* tabulated, any other string is escaped when it is met
EncodedZoneName == [n \in DOMAIN ZoneByName |-> PercentEncode(n)]
EncodeURIComponent(s) ==
    IF s \in DOMAIN EncodedZoneName THEN EncodedZoneName[s] ELSE PercentEncode(s)

\* DateTime.now().setZone(tz).isValid: the zone is known
IsValidZone(tz) == ToLowerCase(tz) \in DOMAIN ZoneByLowerName

\* the zone a valid name stands for
ZoneOf(tz) ==
    IF tz \in DOMAIN ZoneByName THEN ZoneByName[tz]
    ELSE ZoneByLowerName[ToLowerCase(tz)]

\* the validation that leaves the organizer's zone out
ValidTzsLeadsOnly(userTimezone, resolvedTzs) ==
    \A i \in 1..Len(resolvedTzs) : IsValidZone(resolvedTzs[i])

\* [userTimezone, ...resolvedTzs].every(tz => ... isValid)
ValidTzs(userTimezone, resolvedTzs) ==
    /\ IsValidZone(userTimezone)
    /\ \A i \in 1..Len(resolvedTzs) : IsValidZone(resolvedTzs[i])

(* The position of the request in the calendar year decides the            *)
(* daylight-saving shift of each rule: the shift before and after a        *)
(* transition, and the transition's time (no transition near the request   *)
(* when before = after). The us and au rules switch at a local standard    *)
(* time, the eu rule at a UTC time. A transition falls in the night after  *)
(* the UTC day of the request, inside the three days of the search.        *)
Day == 24 * 60
Today == 3 * Day
Still(shift) == [before |-> shift, after |-> shift, at |-> 0]
Switch(from, to, at) == [before |-> from, after |-> to, at |-> Today + Day + at]

Calendar == [
    winter       |-> [us |-> Still(0),  eu |-> Still(0),  au |-> Still(60)],
    march        |-> [us |-> Still(60), eu |-> Still(0),  au |-> Still(60)],
    april        |-> [us |-> Still(60), eu |-> Still(60), au |-> Still(60)],
    summer       |-> [us |-> Still(60), eu |-> Still(60), au |-> Still(0)],
    usForward    |-> [us |-> Switch(0, 60, 120), eu |-> Still(0), au |-> Still(60)],
    euForward    |-> [us |-> Still(60), eu |-> Switch(0, 60, 60), au |-> Still(60)],
    auBack       |-> [us |-> Still(60), eu |-> Still(60), au |-> Switch(60, 0, 120)],
    auForward    |-> [us |-> Still(60), eu |-> Still(60), au |-> Switch(0, 60, 120)],
    euBack       |-> [us |-> Still(60), eu |-> Switch(60, 0, 60), au |-> Still(60)],
    usBack       |-> [us |-> Switch(60, 0, 60), eu |-> Still(0), au |-> Still(60)] ]

Seasons == DOMAIN Calendar

\* the readings of the clock: a season and an instant of the day Today
ClockTimes == {Today + 30, Today + 13 * 60 + 47}
Clocks == [season : Seasons, ts : ClockTimes]

\* zone.offset(ts): the offset of zone z from UTC at the instant ts
ZoneOffset(z, season, ts) ==
    IF z.rule = "none" THEN z.std
    ELSE LET r == Calendar[season][z.rule]
             at == IF z.rule = "eu" THEN r.at ELSE r.at - z.std
         IN  z.std + (IF ts >= at THEN r.after ELSE r.before)

----------------------------------------------------------------------------
(* luxon DateTime: an instant ts seen in a zone, o the zone's offset there *)

Min(a, b) == IF a <= b THEN a ELSE b
Max(a, b) == IF a >= b THEN a ELSE b

\* DateTime.now().setZone(tz), dt.setZone(tz, { keepLocalTime: false })
InZone(ts, tz, season) ==
    LET z == ZoneOf(tz)
    IN  [ts |-> ts, o |-> ZoneOffset(z, season, ts), zone |-> z]

LocalOf(dt) == dt.ts + dt.o
DateOf(dt) == LocalOf(dt) \div Day
HourOf(dt) == (LocalOf(dt) % Day) \div 60
MinuteOf(dt) == LocalOf(dt) % 60

\* luxon's fixOffset: the instant whose local time in the zone is local,
\* found from the guess o of the offset
FixOffset(local, o, z, season) ==
    LET guess == local - o
        o2 == ZoneOffset(z, season, guess)
        guess2 == guess - (o2 - o)
        o3 == ZoneOffset(z, season, guess2)
    IN  IF o = o2 THEN [ts |-> guess, o |-> o, zone |-> z]
        ELSE IF o2 = o3 THEN [ts |-> guess2, o |-> o2, zone |-> z]
        ELSE [ts |-> local - Min(o2, o3), o |-> Max(o2, o3), zone |-> z]

\* dt.plus({ days }): the same local time, days later
PlusDays(dt, days, season) == FixOffset(LocalOf(dt) + days * Day, dt.o, dt.zone, season)

\* dt.set({ hour }): the minute is kept
SetHourKeepMinute(dt, hour, season) ==
    FixOffset(DateOf(dt) * Day + hour * 60 + MinuteOf(dt), dt.o, dt.zone, season)

\* dt.set({ hour, minute: 0, second: 0, millisecond: 0 })
SetHour(dt, hour, season) ==
    FixOffset(DateOf(dt) * Day + hour * 60, dt.o, dt.zone, season)

\* dt.plus({ minutes })
PlusMinutes(dt, minutes, season) ==
    [ts |-> dt.ts + minutes, o |-> ZoneOffset(dt.zone, season, dt.ts + minutes),
     zone |-> dt.zone]

\* dt.toFormat('ccc, dd LLL yyyy HH:mm'): the local date, hour and minute
ToFormat(dt) == [date |-> DateOf(dt), hour |-> HourOf(dt), minute |-> MinuteOf(dt)]

\* dt.toISO(): the local time and the offset
ToISO(dt) == [local |-> LocalOf(dt), offset |-> dt.o]

----------------------------------------------------------------------------
(* The slot search *)

\* one candidate of the search: the hour of the day-th day after now, in now's zone
CandidateAt(now, day, hour, duration, season) ==
    LET date == PlusDays(now, day, season)
        start == SetHour(date, hour, season)
        end == PlusMinutes(start, duration, season)
    IN  [day |-> day, hour |-> hour, start |-> start, end |-> end]

\* the hour loop with hour < 17 - Math.ceil(duration/60)
RECURSIVE HourLoopStrict(_, _, _, _, _)
HourLoopStrict(now, day, hour, duration, season) ==
    IF hour < EndHour - CeilHours(duration)
    THEN <<CandidateAt(now, day, hour, duration, season)>>
             \o HourLoopStrict(now, day, hour + 1, duration, season)
    ELSE <<>>

\* for (let hour = 9; hour <= 17 - Math.ceil(duration/60); hour++)
RECURSIVE HourLoop(_, _, _, _, _)
HourLoop(now, day, hour, duration, season) ==
    IF hour <= EndHour - CeilHours(duration)
    THEN <<CandidateAt(now, day, hour, duration, season)>>
             \o HourLoop(now, day, hour + 1, duration, season)
    ELSE <<>>

\* for (let day = 0; day < 3; day++)
RECURSIVE DayLoop(_, _, _, _)
DayLoop(now, day, duration, season) ==
    IF day < HorizonDays
    THEN HourLoop(now, day, StartHour, duration, season)
             \o DayLoop(now, day + 1, duration, season)
    ELSE <<>>

\* the loops that skip a candidate whose start is earlier than now
CandidatesFromNow(now, duration, season) ==
    SelectSeq(DayLoop(now, 0, duration, season), LAMBDA c : c.start.ts >= now.ts)

\* the candidates in the order the loops visit them
Candidates(now, duration, season) == DayLoop(now, 0, duration, season)

\* the test of the start alone
LeadOkStartOnly(start, end, tz, season) ==
    HourOf(InZone(start.ts, tz, season)) >= LeadStartHour

\* the test that is exact to the minute: the end is not after 17:00
LeadOkMinuteExact(start, end, tz, season) ==
    LET leadStart == InZone(start.ts, tz, season)
        leadEnd == InZone(end.ts, tz, season)
    IN  /\ HourOf(leadStart) >= LeadStartHour
        /\ \/ HourOf(leadEnd) < LeadEndHour
           \/ HourOf(leadEnd) = LeadEndHour /\ MinuteOf(leadEnd) = 0

\* leadStart.hour >= 9 && leadEnd.hour <= 17, for the lead zone tz
LeadOk(start, end, tz, season) ==
    LET leadStart == InZone(start.ts, tz, season)
        leadEnd == InZone(end.ts, tz, season)
    IN  HourOf(leadStart) >= LeadStartHour /\ HourOf(leadEnd) <= LeadEndHour

\* resolvedTzs.some(tz => ...)
AnyOk(start, end, resolvedTzs, season) ==
    \E i \in 1..Len(resolvedTzs) :
        LET leadStart == InZone(start.ts, resolvedTzs[i], season)
            leadEnd == InZone(end.ts, resolvedTzs[i], season)
        IN  HourOf(leadStart) >= LeadStartHour /\ HourOf(leadEnd) <= LeadEndHour

\* resolvedTzs.every(tz => ...)
AllOk(start, end, resolvedTzs, season) ==
    \A i \in 1..Len(resolvedTzs) : LeadOk(start, end, resolvedTzs[i], season)

\* the slot whose participant times keep the organizer's local time
\* (setZone with keepLocalTime: true)
SlotKeepLocalTime(start, userTimezone, resolvedTzs, duration, season) ==
    [user |-> [time |-> ToFormat(start), tz |-> userTimezone],
     leads |-> [i \in 1..Len(resolvedTzs) |->
                  [time |-> ToFormat(start), tz |-> resolvedTzs[i]]],
     link |-> [tz |-> EncodeURIComponent(userTimezone), start |-> ToISO(start),
               duration |-> duration]]

\* the slot whose participant times are listed last participant first
SlotLeadsReversed(start, userTimezone, resolvedTzs, duration, season) ==
    [user |-> [time |-> ToFormat(start), tz |-> userTimezone],
     leads |-> [i \in 1..Len(resolvedTzs) |->
                  [time |-> ToFormat(InZone(start.ts,
                                resolvedTzs[Len(resolvedTzs) + 1 - i], season)),
                   tz |-> resolvedTzs[Len(resolvedTzs) + 1 - i]]],
     link |-> [tz |-> EncodeURIComponent(userTimezone), start |-> ToISO(start),
               duration |-> duration]]

\* the slot pushed for an accepted candidate
Slot(start, userTimezone, resolvedTzs, duration, season) ==
    [user |-> [time |-> ToFormat(start), tz |-> userTimezone],
     leads |-> [i \in 1..Len(resolvedTzs) |->
                  [time |-> ToFormat(InZone(start.ts, resolvedTzs[i], season)),
                   tz |-> resolvedTzs[i]]],
     link |-> [tz |-> EncodeURIComponent(userTimezone), start |-> ToISO(start),
               duration |-> duration]]

\* slots.unshift in the place of slots.push: the latest slot comes first
SlotsUnshift(cands, userTimezone, resolvedTzs, duration, season) ==
    LET ok == SelectSeq(cands, LAMBDA c :
                  \A i \in 1..Len(resolvedTzs) :
                      LET leadStart == InZone(c.start.ts, resolvedTzs[i], season)
                          leadEnd == InZone(c.end.ts, resolvedTzs[i], season)
                      IN  HourOf(leadStart) >= LeadStartHour
                              /\ HourOf(leadEnd) <= LeadEndHour)
    IN  [i \in 1..Len(ok) |->
            [user |-> [time |-> ToFormat(ok[Len(ok) + 1 - i].start), tz |-> userTimezone],
             leads |-> [k \in 1..Len(resolvedTzs) |->
                          [time |-> ToFormat(InZone(ok[Len(ok) + 1 - i].start.ts,
                                                    resolvedTzs[k], season)),
                           tz |-> resolvedTzs[k]]],
             link |-> [tz |-> EncodeURIComponent(userTimezone),
                       start |-> ToISO(ok[Len(ok) + 1 - i].start),
                       duration |-> duration]]]

\* the slots of the accepted candidates, in the order of the candidates
Slots(cands, userTimezone, resolvedTzs, duration, season) ==
    LET ok == SelectSeq(cands, LAMBDA c : AllOk(c.start, c.end, resolvedTzs, season))
    IN  [i \in 1..Len(ok) |->
            Slot(ok[i].start, userTimezone, resolvedTzs, duration, season)]

----------------------------------------------------------------------------
(* The response *)

NoHtml == [kind |-> "none", text |-> "", header |-> <<>>, rows |-> <<>>]
Div(text) == [kind |-> "div", text |-> text, header |-> <<>>, rows |-> <<>>]

\* the table whose empty-state row spans the participants' columns only
TableNarrowSpan(resolvedTzs, slots) ==
    [kind |-> "table",
     text |-> "",
     header |-> <<[text |-> "Your Time", n |-> 0, tz |-> <<>>]>>
                \o [i \in 1..Len(resolvedTzs) |->
                       [text |-> "Lead", n |-> i, tz |-> resolvedTzs[i]]],
     rows |-> IF Len(slots) = 0
              THEN <<[colspan |-> Len(resolvedTzs),
                      text |-> "No overlapping slots found for the next 3 days.",
                      cells |-> <<>>]>>
              ELSE [i \in 1..Len(slots) |->
                       [colspan |-> 1, text |-> "",
                        cells |-> <<slots[i].user>> \o slots[i].leads]]]

\* the header row and one row per slot, or the single row that spans them
Table(resolvedTzs, slots) ==
    [kind |-> "table",
     text |-> "",
     header |-> <<[text |-> "Your Time", n |-> 0, tz |-> <<>>]>>
                \o [i \in 1..Len(resolvedTzs) |->
                       [text |-> "Lead", n |-> i, tz |-> resolvedTzs[i]]],
     rows |-> IF Len(slots) = 0
              THEN <<[colspan |-> 1 + Len(resolvedTzs),
                      text |-> "No overlapping slots found for the next 3 days.",
                      cells |-> <<>>]>>
              ELSE [i \in 1..Len(slots) |->
                       [colspan |-> 1, text |-> "",
                        cells |-> <<slots[i].user>> \o slots[i].leads]]]

\* the link of the last slot in the place of the first
MeetingLinkLast(slots) == IF Len(slots) > 0 THEN <<slots[Len(slots)].link>> ELSE <<>>

\* slots.length > 0 ? slots[0].link : '': the empty string is <<>>, a link
\* is the one-element sequence of its parts
MeetingLink(slots) == IF Len(slots) > 0 THEN <<slots[1].link>> ELSE <<>>

NoResponse == [status |-> 0, fields |-> {}, error |-> "",
               slotsTableHtml |-> NoHtml, meetingLink |-> <<>>]

\* res.status(400).json({ error })
ErrorResponse(error) ==
    [status |-> BadRequest, fields |-> {"error"}, error |-> error,
     slotsTableHtml |-> NoHtml, meetingLink |-> <<>>]

\* the reply of a catch that passes the error's text on
CatchResponseLeaky(error) ==
    [status |-> Ok, fields |-> {"slotsTableHtml", "meetingLink"}, error |-> "",
     slotsTableHtml |-> [kind |-> "div", text |-> error, header |-> <<>>, rows |-> <<>>],
     meetingLink |-> <<>>]

\* the reply of the catch block: the error is logged, not sent
CatchResponse(error) ==
    [status |-> Ok, fields |-> {"slotsTableHtml", "meetingLink"}, error |-> "",
     slotsTableHtml |-> Div("Server error: Unable to find meeting slots."),
     meetingLink |-> <<>>]

\* res.json({ slotsTableHtml, meetingLink })
JsonResponse(html, link) ==
    [status |-> Ok, fields |-> {"slotsTableHtml", "meetingLink"}, error |-> "",
     slotsTableHtml |-> html, meetingLink |-> link]

----------------------------------------------------------------------------
(* The requests *)

UserTimezones ==
    {Undefined, Num(42), Str(<<>>), Str(<<" "," ">>),
     Str(<<"U","T","C">>), Str(<<"A","m","e","r","i","c","a","/","N","e","w","_","Y","o","r","k">>), Str(<<"l","o","n","d","o","n">>)}

\* the comma-separated pieces a leadLocations string is made of
RawPieces ==
    {<<>>, <<"l","o","n","d","o","n">>, <<" ","t","o","k","y","o">>, <<"s","y","d","n","e","y">>, <<" ","N","e","w"," ","Y","o","r","k"," ">>, <<"U","T","C">>, <<"N","o","w","h","e","r","e"," ","C","i","t","y">>}

LeadLocations ==
    {Undefined, Num(7), Str(<<" ">>)}
        \cup {Str(Join(p)) : p \in UNION {[1..n -> RawPieces] : n \in 1..MaxPieces}}

CallDurations ==
    {Undefined, Str(<<"a","b","c">>), Str(<<"4","5">>),
     Num(30), Num(60), Num(90), Num(480), Num(0 - 60)}

----------------------------------------------------------------------------
(* The handler *)

VARIABLES
    pc,           \* where the handler is: idle, validateInput, resolve,
                  \* validateZones, search, format, done
    req,          \* the body of the request being handled
    duration,     \* const duration
    leadTzs,      \* const leadTzs
    resolvedTzs,  \* const resolvedTzs
    clock,        \* the reading of the clock taken for now
    candidates,   \* the candidates the loops have evaluated, in order
    slots,        \* const slots
    res,          \* the response sent
    stages,       \* the parts of the handler the request has been through
    thrown,       \* the text of the error the catch block has caught, or ""
    prev,         \* history: an earlier request, its clock reading and its reply
    projFaults,   \* the projections that threw inside allOk: pairs of the
                  \* index of a candidate and the index of a participant
    mailPc,       \* where the /generate-mail handler is
    mailReq,      \* req.body.userPrompt of the /generate-mail request
    mailCalls,    \* the prompts sent to the AI service, in order
    mailUpstream, \* what the AI service did with the call
    mailError,    \* error.message of the error the handler's catch has caught
    mailRes,      \* the responses sent to the /generate-mail request, in order
    liPc,         \* where the /generate-linkedin-messages handler is
    liReq,        \* req.body of the /generate-linkedin-messages request
    liGenerated,  \* result.messages as parsed from the AI service's reply
    liMessages,   \* result.messages after the length check
    liRes         \* the responses sent to the request, in order

mailVars == <<mailPc, mailReq, mailCalls, mailUpstream, mailError, mailRes>>
liVars == <<liPc, liReq, liGenerated, liMessages, liRes>>

vars == <<pc, req, duration, leadTzs, resolvedTzs, clock, candidates, slots, res,
          stages, thrown, prev, projFaults, mailVars, liVars>>

NoRequest == [userTimezone |-> Undefined, leadLocations |-> Undefined,
              callDuration |-> Undefined]
NoClock == [season |-> "winter", ts |-> 0]
NoPrev == [seen |-> FALSE, req |-> NoRequest, clock |-> NoClock, slots |-> <<>>,
           res |-> NoResponse]

Init ==
    /\ pc = "idle"
    /\ req = NoRequest
    /\ duration = 0
    /\ leadTzs = <<>>
    /\ resolvedTzs = <<>>
    /\ clock = NoClock
    /\ candidates = <<>>
    /\ slots = <<>>
    /\ res = NoResponse
    /\ stages = {}
    /\ thrown = ""
    /\ prev = NoPrev
    /\ projFaults = {}
    /\ mailPc = "idle"
    /\ mailReq = Undefined
    /\ mailCalls = <<>>
    /\ mailUpstream = [kind |-> "none", status |-> 0, code |-> "", message |-> <<>>]
    /\ mailError = <<>>
    /\ mailRes = <<>>
    /\ liPc = "idle"
    /\ liReq = [leadPersona |-> Undefined, productService |-> Undefined,
                outreachGoal |-> Undefined]
    /\ liGenerated = <<>>
    /\ liMessages = <<>>
    /\ liRes = <<>>

\* a request arrives, its fields drawn from the three sets
ReceiveFrom(userTimezones, leadLocations, callDurations) ==
    /\ pc = "idle"
    /\ \E u \in userTimezones, l \in leadLocations, d \in callDurations :
           req' = [userTimezone |-> u, leadLocations |-> l, callDuration |-> d]
    /\ pc' = "validateInput"
    /\ UNCHANGED <<duration, leadTzs, resolvedTzs, clock, candidates, slots, res,
                   stages, thrown, prev,
                   projFaults, mailVars, liVars>>

Receive == ReceiveFrom(UserTimezones, LeadLocations, CallDurations)

\* the two checks of the required fields
ValidateInput ==
    /\ pc = "validateInput"
    /\ stages' = stages \cup {"validateInput"}
    /\ IF IsBlank(req.userTimezone)
       THEN /\ res' = ErrorResponse("Please provide your timezone.")
            /\ pc' = "done"
       ELSE IF IsBlank(req.leadLocations)
       THEN /\ res' = ErrorResponse("Please provide lead locations.")
            /\ pc' = "done"
       ELSE /\ res' = res
            /\ pc' = "resolve"
    /\ UNCHANGED <<req, duration, leadTzs, resolvedTzs, clock, candidates, slots,
                   thrown, prev,
                   projFaults, mailVars, liVars>>

\* duration, leadTzs and resolvedTzs
Resolve ==
    /\ pc = "resolve"
    /\ stages' = stages \cup {"resolve"}
    /\ duration' = Duration(req.callDuration)
    /\ leadTzs' = LeadTzs(req.leadLocations.str)
    /\ resolvedTzs' = ResolvedTzs(leadTzs')
    /\ pc' = "validateZones"
    /\ UNCHANGED <<req, clock, candidates, slots, res, thrown, prev,
                   projFaults, mailVars, liVars>>

\* validTzs and the reply to invalid zones
ValidateZones ==
    /\ pc = "validateZones"
    /\ stages' = stages \cup {"validateZones"}
    /\ IF ValidTzs(req.userTimezone.str, resolvedTzs)
       THEN /\ res' = res
            /\ pc' = "search"
       ELSE /\ res' = JsonResponse(Div("Invalid timezone(s) provided."), <<>>)
            /\ pc' = "done"
    /\ UNCHANGED <<req, duration, leadTzs, resolvedTzs, clock, candidates, slots,
                   thrown, prev,
                   projFaults, mailVars, liVars>>

\* the search loops, from a reading of the clock drawn from clocks
SearchAt(clocks) ==
    /\ pc = "search"
    /\ stages' = stages \cup {"search"}
    /\ \E c \in clocks :
        LET now == InZone(c.ts, req.userTimezone.str, c.season)
        IN  /\ clock' = c
            /\ candidates' = Candidates(now, duration, c.season)
            /\ slots' = Slots(candidates', req.userTimezone.str, resolvedTzs,
                              duration, c.season)
    /\ pc' = "format"
    /\ UNCHANGED <<req, duration, leadTzs, resolvedTzs, res, thrown, prev,
                   projFaults, mailVars, liVars>>

Search == SearchAt(Clocks)

\* the table, the meeting link and the reply
Format ==
    /\ pc = "format"
    /\ stages' = stages \cup {"format"}
    /\ res' = JsonResponse(Table(resolvedTzs, slots), MeetingLink(slots))
    /\ pc' = "done"
    /\ UNCHANGED <<req, duration, leadTzs, resolvedTzs, clock, candidates, slots,
                   thrown, prev,
                   projFaults, mailVars, liVars>>

\* the return of a handler that keeps its slot list and its zone list in
\* variables of the module, not of the call
ReturnLeak ==
    /\ pc = "done"
    /\ pc' = "idle"
    /\ req' = NoRequest
    /\ duration' = 0
    /\ leadTzs' = <<>>
    /\ resolvedTzs' = resolvedTzs
    /\ clock' = NoClock
    /\ candidates' = <<>>
    /\ slots' = slots
    /\ res' = NoResponse
    /\ stages' = {}
    /\ thrown' = ""
    /\ prev' = prev
    /\ projFaults' = {}
    /\ UNCHANGED <<mailVars, liVars>>

\* the handler returns: its locals are gone, and the server waits for the
\* next request
Return ==
    /\ pc = "done"
    /\ pc' = "idle"
    /\ req' = NoRequest
    /\ duration' = 0
    /\ leadTzs' = <<>>
    /\ resolvedTzs' = <<>>
    /\ clock' = NoClock
    /\ candidates' = <<>>
    /\ slots' = <<>>
    /\ res' = NoResponse
    /\ stages' = {}
    /\ thrown' = ""
    /\ prev' = prev
    /\ projFaults' = {}
    /\ UNCHANGED <<mailVars, liVars>>

Next ==
    Receive \/ ValidateInput \/ Resolve \/ ValidateZones \/ Search \/ Format \/ Return

Spec == Init /\ [][Next]_vars


----------------------------------------------------------------------------
(* The handler with a fault: something inside the try block throws, and    *)
(* the catch block answers.                                                *)

ErrorTexts == {"Cannot read properties of undefined", "Invalid time zone specified"}

\* catch (error) { console.error(...); res.json(...) }
Fault ==
    /\ pc \in {"validateInput", "resolve", "validateZones", "search", "format"}
    /\ \E e \in ErrorTexts :
           /\ thrown' = e
           /\ res' = CatchResponse(e)
    /\ pc' = "done"
    /\ UNCHANGED <<req, duration, leadTzs, resolvedTzs, clock, candidates, slots,
                   stages, prev,
                   projFaults, mailVars, liVars>>

\* the requests of the behaviours with faults
FaultUserTimezones == {Undefined, Str(<<"U","T","C">>), Str(<<"l","o","n","d","o","n">>)}
FaultLeadLocations == {Undefined, Str(<<"l","o","n","d","o","n">>), Str(<<"N","o","w","h","e","r","e"," ","C","i","t","y">>), Str(<<",">>)}
FaultCallDurations == {Undefined, Num(60)}

ReceiveFault == ReceiveFrom(FaultUserTimezones, FaultLeadLocations, FaultCallDurations)

NextFault ==
    ReceiveFault \/ ValidateInput \/ Resolve \/ ValidateZones \/ Search \/ Format
        \/ Return \/ Fault

SpecFault == Init /\ [][NextFault]_vars

----------------------------------------------------------------------------
(* The server over several requests, with the history of one earlier       *)
(* request that ended without a fault.                                     *)

HistUserTimezones == {Undefined, Str(<<"U","T","C">>), Str(<<"A","m","e","r","i","c","a","/","N","e","w","_","Y","o","r","k">>)}
HistLeadLocations == {Str(<<"l","o","n","d","o","n">>), Str(<<"N","o","w","h","e","r","e"," ","C","i","t","y">>)}
HistCallDurations == {Undefined, Str(<<"a","b","c">>), Str(<<"4","5">>), Num(30), Num(60)}
HistClocks == {c \in Clocks : c.season \in {"winter", "euForward"}}

ReceiveHist == ReceiveFrom(HistUserTimezones, HistLeadLocations, HistCallDurations)
SearchHist == SearchAt(HistClocks)

\* the handler returns, and the request is the one the history keeps
Remember ==
    /\ pc = "done"
    /\ thrown = ""
    /\ prev' = [seen |-> TRUE, req |-> req, clock |-> clock, slots |-> slots,
                res |-> res]
    /\ pc' = "idle"
    /\ req' = NoRequest
    /\ duration' = 0
    /\ leadTzs' = <<>>
    /\ resolvedTzs' = <<>>
    /\ clock' = NoClock
    /\ candidates' = <<>>
    /\ slots' = <<>>
    /\ res' = NoResponse
    /\ stages' = {}
    /\ thrown' = ""
    /\ projFaults' = {}
    /\ UNCHANGED <<mailVars, liVars>>

NextHist ==
    ReceiveHist \/ ValidateInput \/ Resolve \/ ValidateZones \/ SearchHist \/ Format
        \/ Return \/ Remember \/ Fault

SpecHist == Init /\ [][NextHist]_vars

----------------------------------------------------------------------------
(* The resolution of the city names in every spelling: each key of the     *)
(* city table in five patterns of case, bare or padded with white space.   *)

UpperChar(c) ==
    IF \E i \in DOMAIN LowerChars : LowerChars[i] = c
    THEN UpperChars[CHOOSE i \in DOMAIN LowerChars : LowerChars[i] = c]
    ELSE c

\* a word begins at the first character and after a space
Cased(s, pattern) ==
    [i \in 1..Len(s) |->
        CASE pattern = "lower" -> s[i]
          [] pattern = "upper" -> UpperChar(s[i])
          [] pattern = "title" -> IF i = 1 \/ s[IF i = 1 THEN 1 ELSE i - 1] = " "
                                  THEN UpperChar(s[i]) ELSE s[i]
          [] pattern = "odd" -> IF i % 2 = 1 THEN UpperChar(s[i]) ELSE s[i]
          [] pattern = "even" -> IF i % 2 = 0 THEN UpperChar(s[i]) ELSE s[i]]

Paddings == {<<<<>>, <<>>>>, <<<<" ">>, <<>>>>, <<<<>>, <<" ", "\t">>>>, <<<<" ", " ">>, <<" ">>>>}

CityVariants(city) ==
    {p[1] \o Cased(city, c) \o p[2] :
        c \in {"lower", "upper", "title", "odd", "even"}, p \in Paddings}

CityLeadLocations ==
    {Str(v) : v \in UNION {CityVariants(CityToTz[k].city) : k \in DOMAIN CityToTz}}

ReceiveCity == ReceiveFrom({Str(<<"U","T","C">>)}, CityLeadLocations, {Undefined})

NextCity ==
    ReceiveCity \/ ValidateInput \/ Resolve \/ ValidateZones \/ SearchHist \/ Format
        \/ Return

SpecCity == Init /\ [][NextCity]_vars

----------------------------------------------------------------------------
(* Projections that throw. The callback of tzs.every wraps the two *)
(* setZone calls in try/catch and returns false when one of them throws.   *)

\* the callback whose catch returns true
AllOkCatchTrue(n, start, end, tzs, season, faults) ==
    \A i \in 1..Len(tzs) :
        <<n, i>> \in faults \/ LeadOk(start, end, tzs[i], season)

\* allOk for the n-th candidate, when the projections of faults throw
AllOkCaught(n, start, end, tzs, season, faults) ==
    \A i \in 1..Len(tzs) :
        <<n, i>> \notin faults /\ LeadOk(start, end, tzs[i], season)

\* the slots pushed by the loops when the projections of faults throw
SlotsCaught(cands, userTimezone, tzs, minutes, season, faults) ==
    LET numbered == [n \in 1..Len(cands) |-> [n |-> n, c |-> cands[n]]]
        ok == SelectSeq(numbered, LAMBDA x :
                  AllOkCaught(x.n, x.c.start, x.c.end, tzs, season, faults))
    IN  [i \in 1..Len(ok) |->
            Slot(ok[i].c.start, userTimezone, tzs, minutes, season)]

\* every calls its callback for the participant k of the candidate c only
\* when the participants before k have passed
Reached(c, k, tzs, season) ==
    \A j \in 1..(k - 1) : LeadOk(c.start, c.end, tzs[j], season)

\* the search loops, one projection of which throws
SearchCaught(clocks) ==
    /\ pc = "search"
    /\ stages' = stages \cup {"search"}
    /\ \E c \in clocks :
        LET now == InZone(c.ts, req.userTimezone.str, c.season)
            cands == Candidates(now, duration, c.season)
        IN  \E n \in 1..Len(cands), k \in 1..Len(resolvedTzs) :
                /\ Reached(cands[n], k, resolvedTzs, c.season)
                /\ projFaults' = {<<n, k>>}
                /\ clock' = c
                /\ candidates' = cands
                /\ slots' = SlotsCaught(cands, req.userTimezone.str, resolvedTzs,
                                        duration, c.season, projFaults')
    /\ pc' = "format"
    /\ UNCHANGED <<req, duration, leadTzs, resolvedTzs, res, thrown, prev,
                   mailVars, liVars>>

ProjUserTimezones == {Str(<<"U","T","C">>), Str(<<"A","m","e","r","i","c","a","/","N","e","w","_","Y","o","r","k">>)}
ProjLeadLocations ==
    {Str(<<"l","o","n","d","o","n">>), Str(<<"l","o","n","d","o","n",",","U","T","C">>), Str(<<"U","T","C",","," ","l","o","n","d","o","n">>), Str(<<"N","e","w"," ","Y","o","r","k",",","l","o","n","d","o","n">>)}
ProjCallDurations == {Num(30), Num(60)}
ProjClocks == {c \in Clocks : c.season \in {"winter", "april"}}

ReceiveProj == ReceiveFrom(ProjUserTimezones, ProjLeadLocations, ProjCallDurations)
SearchProj == SearchCaught(ProjClocks)
SearchNoFault == SearchAt(ProjClocks)

NextProj ==
    ReceiveProj \/ ValidateInput \/ Resolve \/ ValidateZones \/ SearchProj
        \/ SearchNoFault \/ Format \/ Return

SpecProj == Init /\ [][NextProj]_vars

----------------------------------------------------------------------------
(* Requests whose leadLocations put the tokenizer to work: empty tokens,   *)
(* whitespace, repeated tokens, cities in several casings, zone            *)
(* identifiers and tokens that are neither.                                *)

TokenLeadLocations ==
    {Str(<<",">>), Str(<<" "," ">>), Str(<<"U","T","C">>), Str(<<"u","t","c">>), Str(<<"n","o","w","h","e","r","e"," ","c","i","t","y">>),
     Str(<<"l","o","n","d","o","n",",","l","o","n","d","o","n">>), Str(<<" ","N","o","w","h","e","r","e"," ","C","i","t","y"," ",",","L","o","n","d","o","n">>), Str(<<" ",","," ","T","o","k","y","o",",",",">>),
     Str(<<"L","O","N","D","O","N"," ",","," ",",","s","y","d","n","e","y">>), Str(<<"B","e","r","l","i","n",",","N","o","w","h","e","r","e"," ","C","i","t","y">>), Str(<<"U","T","C",",",","," ","u","t","c">>),
     Str(<<"A","s","i","a","/","T","o","k","y","o",",","t","o","k","y","o"," ",","," ","N","e","w"," ","Y","o","r","k">>)}

ReceiveTokens == ReceiveFrom(ProjUserTimezones, TokenLeadLocations, {Undefined})

NextTokens ==
    ReceiveTokens \/ ValidateInput \/ Resolve \/ ValidateZones \/ SearchHist \/ Format
        \/ Return

SpecTokens == Init /\ [][NextTokens]_vars

----------------------------------------------------------------------------
(* /generate-mail. express.json() hands the handler a body object; the     *)
(* request is its userPrompt. The AI service is the environment: it        *)
(* answers a call with a text or fails it in one of the ways axios         *)
(* reports.                                                                *)

MaxPromptLength == 2000
TooManyRequests == 429
ServiceUnavailable == 503
ServerError == 500

\* String.prototype.includes, for sub that is not empty
Includes(s, sub) ==
    \E i \in 0..(Len(s) - Len(sub)) : SubSeq(s, i + 1, i + Len(sub)) = sub

\* the decimal digits of an HTTP status, as a template literal prints them
StatusText(status) ==
    <<DigitChars[(status \div 100) + 1], DigitChars[((status \div 10) % 10) + 1],
      DigitChars[(status % 10) + 1]>>

NoUpstream == [kind |-> "none", status |-> 0, code |-> "", message |-> <<>>]

\* axios resolves: message is candidates[0].content.parts[0].text
Answer(text) == [kind |-> "ok", status |-> 200, code |-> "", message |-> text]
\* axios resolves with a body that has no candidates
NoCandidates == [kind |-> "nocandidates", status |-> 200, code |-> "", message |-> <<>>]
\* axios rejects with error.response: message is
\* error.response.data?.error?.message, <<>> when there is none
HttpError(status, message) ==
    [kind |-> "http", status |-> status, code |-> "", message |-> message]
\* axios rejects without a response: error.code and error.message
CodeError(code, message) ==
    [kind |-> "code", status |-> 0, code |-> code, message |-> message]

\* the message of the error generateEmailWithGemini throws for a failed call
GeminiError(upstream) ==
    IF upstream.kind = "http"
    THEN LET errorMessage == IF upstream.message # <<>> THEN upstream.message
                             ELSE <<"U","n","k","n","o","w","n"," ","A","P","I"," ","e","r","r","o","r">>
         IN  IF upstream.status = 400
             THEN <<"I","n","v","a","l","i","d"," ","r","e","q","u","e","s","t"," ","t","o"," ","A","I"," ","s","e","r","v","i","c","e",":"," ">> \o errorMessage
             ELSE IF upstream.status \in {401, 403}
             THEN <<"A","P","I"," ","k","e","y"," ","a","u","t","h","e","n","t","i","c","a","t","i","o","n"," ","f","a","i","l","e","d">>
             ELSE IF upstream.status = 429
             THEN <<"R","a","t","e"," ","l","i","m","i","t"," ","e","x","c","e","e","d","e","d"," ","f","o","r"," ","A","I"," ","s","e","r","v","i","c","e">>
             ELSE <<"A","I"," ","s","e","r","v","i","c","e"," ","e","r","r","o","r"," ","(">> \o StatusText(upstream.status) \o <<")",":"," ">>
                      \o errorMessage
    ELSE IF upstream.kind = "code" /\ upstream.code \in {"ENOTFOUND", "ECONNREFUSED"}
    THEN <<"N","e","t","w","o","r","k"," ","e","r","r","o","r",":"," ","U","n","a","b","l","e"," ","t","o"," ","c","o","n","n","e","c","t"," ","t","o"," ","A","I"," ","s","e","r","v","i","c","e">>
    ELSE IF upstream.kind = "code" /\ upstream.code = "ETIMEDOUT"
    THEN <<"R","e","q","u","e","s","t"," ","t","i","m","e","o","u","t",":"," ","A","I"," ","s","e","r","v","i","c","e"," ","t","o","o","k"," ","t","o","o"," ","l","o","n","g"," ","t","o"," ","r","e","s","p","o","n","d">>
    ELSE IF upstream.kind = "code"
    THEN <<"U","n","e","x","p","e","c","t","e","d"," ","e","r","r","o","r",":"," ">> \o upstream.message
    ELSE IF upstream.kind = "nocandidates"
    THEN <<"U","n","e","x","p","e","c","t","e","d"," ","e","r","r","o","r",":"," ","I","n","v","a","l","i","d"," ","r","e","s","p","o","n","s","e"," ","f","r","o","m"," ","G","e","m","i","n","i"," ","A","P","I">>
    ELSE <<"U","n","e","x","p","e","c","t","e","d"," ","e","r","r","o","r",":"," ","E","m","p","t","y"," ","r","e","s","p","o","n","s","e"," ","f","r","o","m"," ","G","e","m","i","n","i"," ","A","P","I">>

\* the call succeeds: a text that is not blank came back
Generated(upstream) == upstream.kind = "ok" /\ Trim(upstream.message) # <<>>

MailReply(status, error, generatedEmail) ==
    [status |-> status, error |-> error, generatedEmail |-> generatedEmail]

\* the reply of the handler's catch block to an error with this message
MailCatchReply(message) ==
    IF Includes(message, <<"A","P","I"," ","k","e","y">>)
    THEN MailReply(ServerError,
                   <<"A","P","I"," ","c","o","n","f","i","g","u","r","a","t","i","o","n"," ","e","r","r","o","r","."," ","P","l","e","a","s","e"," ","c","h","e","c","k"," ","s","e","r","v","e","r"," ","s","e","t","t","i","n","g","s",".">>, <<>>)
    ELSE IF Includes(message, <<"r","a","t","e"," ","l","i","m","i","t">>) \/ Includes(message, <<"q","u","o","t","a">>)
    THEN MailReply(TooManyRequests,
                   <<"S","e","r","v","i","c","e"," ","t","e","m","p","o","r","a","r","i","l","y"," ","u","n","a","v","a","i","l","a","b","l","e"," ","d","u","e"," ","t","o"," ","h","i","g","h"," ","d","e","m","a","n","d","."," ","P","l","e","a","s","e"," ","t","r","y"," ","a","g","a","i","n"," ","l","a","t","e","r",".">>, <<>>)
    ELSE IF Includes(message, <<"n","e","t","w","o","r","k">>) \/ Includes(message, <<"t","i","m","e","o","u","t">>)
    THEN MailReply(ServiceUnavailable,
                   <<"S","e","r","v","i","c","e"," ","t","e","m","p","o","r","a","r","i","l","y"," ","u","n","a","v","a","i","l","a","b","l","e","."," ","P","l","e","a","s","e"," ","t","r","y"," ","a","g","a","i","n"," ","i","n"," ","a"," ","m","o","m","e","n","t",".">>, <<>>)
    ELSE MailReply(ServerError, <<"F","a","i","l","e","d"," ","t","o"," ","g","e","n","e","r","a","t","e"," ","e","m","a","i","l","."," ","P","l","e","a","s","e"," ","t","r","y"," ","a","g","a","i","n",".">>, <<>>)

\* the length check made on the trimmed prompt
PromptTooLongTrimmed(userPrompt) == Len(Trim(userPrompt)) > MaxPromptLength

\* userPrompt.length > 2000
PromptTooLong(userPrompt) == Len(userPrompt) > MaxPromptLength

\* a prompt of n characters
Filler(n) == [i \in 1..n |-> "a"]

UserPrompts ==
    {Undefined, Num(42), Str(<<>>), Str(<<" "," ">>), Str(<<"h","e","l","l","o">>), Str(<<" ","h","i"," ","t","h","e","r","e"," ">>),
     Str(Filler(MaxPromptLength)), Str(Filler(MaxPromptLength + 1)),
     Str(<<" ">> \o Filler(MaxPromptLength - 2) \o <<" ">>),
     Str(<<" ">> \o Filler(MaxPromptLength - 1) \o <<" ">>)}

UpstreamOutcomes ==
    {Answer(<<" ","S","u","b","j","e","c","t",":"," ","H","e","l","l","o"," ">>), Answer(<<" "," ">>), Answer(<<>>), NoCandidates}
        \cup {HttpError(s, m) : s \in {400, 401, 403, 429, 500, 503},
                                m \in {<<>>, <<"R","e","s","o","u","r","c","e"," ","h","a","s"," ","b","e","e","n"," ","e","x","h","a","u","s","t","e","d">>}}
        \cup {CodeError("ENOTFOUND", <<"g","e","t","a","d","d","r","i","n","f","o"," ","E","N","O","T","F","O","U","N","D">>),
              CodeError("ECONNREFUSED", <<"c","o","n","n","e","c","t"," ","E","C","O","N","N","R","E","F","U","S","E","D">>),
              CodeError("ETIMEDOUT", <<"c","o","n","n","e","c","t"," ","E","T","I","M","E","D","O","U","T">>),
              CodeError("ECONNABORTED", <<"t","i","m","e","o","u","t"," ","o","f"," ","3","0","0","0","0","m","s"," ","e","x","c","e","e","d","e","d">>),
              CodeError("ECONNRESET", <<"s","o","c","k","e","t"," ","h","a","n","g"," ","u","p">>)}

slotVars == <<pc, req, duration, leadTzs, resolvedTzs, clock, candidates, slots, res,
              stages, thrown, prev, projFaults>>

\* a request arrives
MailReceive ==
    /\ mailPc = "idle"
    /\ \E p \in UserPrompts : mailReq' = p
    /\ mailPc' = "validate"
    /\ UNCHANGED <<mailCalls, mailUpstream, mailError, mailRes, slotVars, liVars>>

\* the three checks of userPrompt
MailValidate ==
    /\ mailPc = "validate"
    /\ IF ~Truthy(mailReq) \/ mailReq.type # "string"
       THEN /\ mailRes' = Append(mailRes, MailReply(BadRequest,
                              <<"I","n","v","a","l","i","d"," ","i","n","p","u","t","."," ","P","l","e","a","s","e"," ","p","r","o","v","i","d","e"," ","a"," ","u","s","e","r","P","r","o","m","p","t"," ","s","t","r","i","n","g",".">>, <<>>))
            /\ mailPc' = "done"
       ELSE IF Len(Trim(mailReq.str)) = 0
       THEN /\ mailRes' = Append(mailRes, MailReply(BadRequest,
                              <<"E","m","a","i","l"," ","p","r","o","m","p","t"," ","c","a","n","n","o","t"," ","b","e"," ","e","m","p","t","y",".">>, <<>>))
            /\ mailPc' = "done"
       ELSE IF PromptTooLong(mailReq.str)
       THEN /\ mailRes' = Append(mailRes, MailReply(BadRequest,
                              <<"E","m","a","i","l"," ","p","r","o","m","p","t"," ","i","s"," ","t","o","o"," ","l","o","n","g","."," ","P","l","e","a","s","e"," ","k","e","e","p"," ","i","t"," ","u","n","d","e","r"," ","2","0","0","0"," ","c","h","a","r","a","c","t","e","r","s",".">>, <<>>))
            /\ mailPc' = "done"
       ELSE /\ mailRes' = mailRes
            /\ mailPc' = "call"
    /\ UNCHANGED <<mailReq, mailCalls, mailUpstream, mailError, slotVars, liVars>>

\* generateEmailWithGemini(userPrompt.trim()): the call, and the reply to
\* the text it returns or the error it throws
MailCall ==
    /\ mailPc = "call"
    /\ mailCalls' = Append(mailCalls, Trim(mailReq.str))
    /\ \E upstream \in UpstreamOutcomes :
          /\ mailUpstream' = upstream
          /\ IF Generated(upstream)
             THEN /\ mailRes' = Append(mailRes, MailReply(Ok, <<>>, Trim(upstream.message)))
                  /\ mailError' = mailError
                  /\ mailPc' = "done"
             ELSE /\ mailRes' = mailRes
                  /\ mailError' = GeminiError(upstream)
                  /\ mailPc' = "catch"
    /\ UNCHANGED <<mailReq, slotVars, liVars>>

\* the handler's catch block
MailCatch ==
    /\ mailPc = "catch"
    /\ mailRes' = Append(mailRes, MailCatchReply(mailError))
    /\ mailPc' = "done"
    /\ UNCHANGED <<mailReq, mailCalls, mailUpstream, mailError, slotVars, liVars>>

\* the handler returns
MailReturn ==
    /\ mailPc = "done"
    /\ mailPc' = "idle"
    /\ mailReq' = Undefined
    /\ mailCalls' = <<>>
    /\ mailUpstream' = NoUpstream
    /\ mailError' = <<>>
    /\ mailRes' = <<>>
    /\ UNCHANGED <<slotVars, liVars>>

NextMail == MailReceive \/ MailValidate \/ MailCall \/ MailCatch \/ MailReturn

SpecMail == Init /\ [][NextMail]_vars

(***************************************************************************)
(* POST /generate-linkedin-messages and generateLinkedInMessagesWithGemini *)
(***************************************************************************)

\* LinkedIn's limit on a connection request, and where a longer text is cut
MaxTextLength == 300
CutLength == 297

\* the most messages the AI service's reply holds
MaxMessages == 2

\* s.substring(start, end) for 0 <= start <= end
Substring(s, start, end) ==
    SubSeq(s, start + 1, IF end < Len(s) THEN end ELSE Len(s))

\* cuts at the limit itself before adding the dots
MessageTextCutAtLimit(text) ==
    IF Len(text) > MaxTextLength
    THEN Substring(text, 0, MaxTextLength) \o <<".",".",".">>
    ELSE text

\* message.text.length > 300 ? message.text.substring(0, 297) + '...' : message.text
MessageText(text) ==
    IF Len(text) > MaxTextLength
    THEN Substring(text, 0, CutLength) \o <<".",".",".">>
    ELSE text

\* a text of n characters whose characters depend on their position
Letters == <<"a","b","c","d","e","f","g">>
TextOf(n) == [i \in 1..n |-> Letters[(i % Len(Letters)) + 1]]

\* message.text in the parsed reply: a string, or no text at all
MessageTexts ==
    {Str(TextOf(n)) : n \in {0, 1, CutLength, MaxTextLength - 1, MaxTextLength,
                             MaxTextLength + 1, MaxTextLength + 2, MaxTextLength + 100}}
        \cup {Undefined}

\* what the call of the AI service comes to: it throws (the request fails,
\* the reply has no candidate or no JSON object), or result is parsed, with
\* or without a messages array
LinkedInOutcomes ==
    {[kind |-> "throws", messages |-> <<>>], [kind |-> "noMessages", messages |-> <<>>]}
        \cup {[kind |-> "parsed", messages |-> m] :
                 m \in UNION {[1..n -> MessageTexts] : n \in 0..MaxMessages}}

\* req.body
LinkedInRequests ==
    {[leadPersona |-> Str(<<"C","T","O">>), productService |-> Str(<<"C","R","M">>),
      outreachGoal |-> Str(<<" ","d","e","m","o"," ">>)],
     [leadPersona |-> Undefined, productService |-> Str(<<"C","R","M">>),
      outreachGoal |-> Str(<<"d","e","m","o">>)],
     [leadPersona |-> Str(<<"C","T","O">>), productService |-> Str(<<>>),
      outreachGoal |-> Str(<<"d","e","m","o">>)],
     [leadPersona |-> Str(<<"C","T","O">>), productService |-> Str(<<"C","R","M">>),
      outreachGoal |-> Num(42)]}

LinkedInReply(status, error, messages) ==
    [status |-> status, error |-> error, messages |-> messages]

\* the handler's catch block
LinkedInCatchReply ==
    LinkedInReply(ServerError, <<"F","a","i","l","e","d"," ","t","o"," ","g","e","n","e","r","a","t","e"," ","L","i","n","k","e","d","I","n"," ","m","e","s","s","a","g","e","s",".">>, <<>>)

\* a request arrives
LinkedInReceive ==
    /\ liPc = "idle"
    /\ \E body \in LinkedInRequests : liReq' = body
    /\ liPc' = "validate"
    /\ UNCHANGED <<liGenerated, liMessages, liRes, slotVars, mailVars>>

\* the required fields, and the trim() of each before the call
LinkedInValidate ==
    /\ liPc = "validate"
    /\ IF ~Truthy(liReq.leadPersona) \/ ~Truthy(liReq.productService)
             \/ ~Truthy(liReq.outreachGoal)
       THEN /\ liRes' = Append(liRes, LinkedInReply(BadRequest,
                            <<"M","i","s","s","i","n","g"," ","r","e","q","u","i","r","e","d"," ","f","i","e","l","d","s">>, <<>>))
            /\ liPc' = "done"
       ELSE IF \E v \in {liReq.leadPersona, liReq.productService, liReq.outreachGoal} :
                   v.type # "string"
       THEN /\ liRes' = Append(liRes, LinkedInCatchReply)
            /\ liPc' = "done"
       ELSE /\ liRes' = liRes
            /\ liPc' = "call"
    /\ UNCHANGED <<liReq, liGenerated, liMessages, slotVars, mailVars>>

\* generateLinkedInMessagesWithGemini up to JSON.parse
LinkedInCall ==
    /\ liPc = "call"
    /\ \E outcome \in LinkedInOutcomes :
          IF outcome.kind = "parsed"
          THEN /\ liGenerated' = outcome.messages
               /\ liRes' = liRes
               /\ liPc' = "map"
          ELSE /\ liGenerated' = liGenerated
               /\ liRes' = Append(liRes, LinkedInCatchReply)
               /\ liPc' = "done"
    /\ UNCHANGED <<liReq, liMessages, slotVars, mailVars>>

\* result.messages.map(...), return result, res.json(result); a message
\* without a text makes the callback throw
LinkedInMap ==
    /\ liPc = "map"
    /\ IF \E i \in 1..Len(liGenerated) : liGenerated[i].type # "string"
       THEN /\ liMessages' = liMessages
            /\ liRes' = Append(liRes, LinkedInCatchReply)
       ELSE /\ liMessages' = [i \in 1..Len(liGenerated) |->
                                 MessageText(liGenerated[i].str)]
            /\ liRes' = Append(liRes, LinkedInReply(Ok, <<>>, liMessages'))
    /\ liPc' = "done"
    /\ UNCHANGED <<liReq, liGenerated, slotVars, mailVars>>

\* the handler returns
LinkedInReturn ==
    /\ liPc = "done"
    /\ liPc' = "idle"
    /\ liReq' = [leadPersona |-> Undefined, productService |-> Undefined,
                 outreachGoal |-> Undefined]
    /\ liGenerated' = <<>>
    /\ liMessages' = <<>>
    /\ liRes' = <<>>
    /\ UNCHANGED <<slotVars, mailVars>>

NextLinkedIn ==
    LinkedInReceive \/ LinkedInValidate \/ LinkedInCall \/ LinkedInMap \/ LinkedInReturn

SpecLinkedIn == Init /\ [][NextLinkedIn]_vars
----------------------------------------------------------------------------
(* What the claims speak of *)

UserTz == req.userTimezone.str
InputChecked == "validateInput" \in stages
ZonesChecked == "validateZones" \in stages
Searched == "search" \in stages
Done == pc = "done"

\* the local time, in minutes, of the instant ts in the zone named tz, at
\* the season of the clock reading
LocalAt(ts, tz) == ts + ZoneOffset(ZoneOf(tz), clock.season, ts)
HourAt(ts, tz) == (LocalAt(ts, tz) % (24 * 60)) \div 60

\* the current date in the organizer's zone
TodayOfUser == LocalAt(clock.ts, UserTz) \div (24 * 60)

\* the instants a returned slot starts and ends at, read from its link
SlotStart(s) == s.link.start.local - s.link.start.offset
SlotEnd(s) == SlotStart(s) + s.link.duration

\* the row of the user time a candidate of (day, hour) is reported with
UserTimeOf(day, hour) == [date |-> TodayOfUser + day, hour |-> hour, minute |-> 0]
Returned(day, hour) ==
    \E i \in 1..Len(slots) : slots[i].user.time = UserTimeOf(day, hour)

\* a field that is missing, not a string, or empty after trimming
BadField(v) == v.type # "string" \/ \A i \in 1..Len(v.str) : v.str[i] \in {" ", "\t"}

EmptyState ==
    /\ res.status = 200
    /\ res.slotsTableHtml.kind = "table"
    /\ Len(res.slotsTableHtml.rows) = 1
    /\ res.slotsTableHtml.rows[1].cells = <<>>
    /\ res.slotsTableHtml.rows[1].text = "No overlapping slots found for the next 3 days."
    /\ res.meetingLink = <<>>

ScenarioA ==
    /\ req.userTimezone = Str(<<"A","m","e","r","i","c","a","/","N","e","w","_","Y","o","r","k">>)
    /\ req.leadLocations = Str(<<"l","o","n","d","o","n",","," ","t","o","k","y","o">>)
    /\ req.callDuration = Num(30)

ScenarioB ==
    /\ req.userTimezone = Str(<<"U","T","C">>)
    /\ req.leadLocations = Str(<<"s","y","d","n","e","y">>)
    /\ req.callDuration = Num(60)

----------------------------------------------------------------------------
(* C1: every returned slot, seen in each participant's zone, starts at or  *)
(* after 09:00 and before 17:00 local, and ends on the local calendar day  *)
(* it starts on (it does not wrap past local midnight).                    *)
C1_BusinessWindow ==
    \A i \in 1..Len(slots) : \A k \in 1..Len(resolvedTzs) :
        LET ls == LocalAt(SlotStart(slots[i]), resolvedTzs[k])
            le == LocalAt(SlotEnd(slots[i]), resolvedTzs[k])
        IN  /\ ls % (24 * 60) >= 9 * 60
            /\ ls % (24 * 60) < 17 * 60
            /\ le \div (24 * 60) = ls \div (24 * 60)

C3_AllOrNothing ==
    (/\ ZonesChecked
     /\ \/ ~IsValidZone(UserTz)
        \/ \E k \in 1..Len(resolvedTzs) : ~IsValidZone(resolvedTzs[k]))
    => /\ Done
       /\ ~Searched
       /\ "format" \notin stages
       /\ candidates = <<>> /\ slots = <<>>
       /\ res.status = 200
       /\ res.fields = {"slotsTableHtml", "meetingLink"}
       /\ res.slotsTableHtml = Div("Invalid timezone(s) provided.")
       /\ res.meetingLink = <<>>

\* a valid organizer, one valid and one invalid participant
C3_Witness ==
    /\ Done /\ ZonesChecked
    /\ IsValidZone(UserTz)
    /\ Len(resolvedTzs) = 2
    /\ IsValidZone(resolvedTzs[1]) /\ ~IsValidZone(resolvedTzs[2])
    /\ res.slotsTableHtml.kind = "div"

(* C4: a request whose userTimezone or leadLocations is missing, not a     *)
(* string or empty after trimming gets status 400 with an error message    *)
(* before anything is resolved, validated or searched; when both are bad   *)
(* the message is the one about the timezone.                              *)
C4_MissingField ==
    (InputChecked /\ (BadField(req.userTimezone) \/ BadField(req.leadLocations)))
    => /\ Done
       /\ stages = {"validateInput"}
       /\ leadTzs = <<>> /\ resolvedTzs = <<>> /\ candidates = <<>> /\ slots = <<>>
       /\ res.status = 400
       /\ res.fields = {"error"}
       /\ res.error # ""
       /\ BadField(req.userTimezone) => res.error = "Please provide your timezone."
       /\ ~BadField(req.userTimezone) => res.error = "Please provide lead locations."

\* both fields bad, one of them a string of white space
C4_Witness ==
    /\ Done
    /\ req.userTimezone.type = "string" /\ req.userTimezone.str # <<>>
    /\ BadField(req.userTimezone) /\ BadField(req.leadLocations)
    /\ res.status = 400
    /\ res.error = "Please provide your timezone."

(* C5: with a valid organizer zone, a leadLocations string that leaves no  *)
(* participant after splitting, trimming and dropping the empty tokens is  *)
(* rejected as a request error, and no search runs.                        *)
C5_EmptyParticipantList ==
    (/\ InputChecked
     /\ req.userTimezone.type = "string" /\ IsValidZone(UserTz)
     /\ req.leadLocations.type = "string"
     /\ \A p \in {Split(req.leadLocations.str)[i] :
                      i \in 1..Len(Split(req.leadLocations.str))} :
            \A j \in 1..Len(p) : p[j] \in {" ", "\t"})
    => /\ res.status = 400
       /\ ~Searched

(* C6: on each of the day offsets 0, 1, 2 from the organizer's current     *)
(* date, the hours evaluated are exactly the h with                        *)
(* 9 <= h <= 17 - ceil(duration/60); each candidate starts at h:00         *)
(* organizer-local on that day and ends duration minutes later.            *)
C6_CandidateHours ==
    Searched =>
        LET ceil == CHOOSE k \in (0 - 48)..48 :
                        60 * k >= duration /\ 60 * (k - 1) < duration
        IN  /\ {<<candidates[n].day, candidates[n].hour>> : n \in 1..Len(candidates)}
                   = (0..2) \X (9..(17 - ceil))
            /\ Len(candidates) = 3 * Cardinality(9..(17 - ceil))
            /\ \A n \in 1..Len(candidates) :
                   LET c == candidates[n]
                   IN  /\ LocalAt(c.start.ts, UserTz)
                              = (TodayOfUser + c.day) * 24 * 60 + c.hour * 60
                       /\ c.end.ts = c.start.ts + duration

\* a duration that is no multiple of an hour, a clock reading off the hour
C6_Witness ==
    /\ Searched
    /\ duration = 90
    /\ clock.ts % 60 # 0
    /\ Len(candidates) = 21

(* C7, as stated: a duration of 480 minutes yields no candidate, so the    *)
(* table is the empty-state row and the meetingLink is empty.              *)
C7_NoCandidateAt480 ==
    (Done /\ Searched /\ duration = 480) => (candidates = <<>> /\ EmptyState)

(* C7, amended: a duration of 480 minutes yields exactly one candidate a   *)
(* day, 09:00; the reply is the empty-state row with an empty meetingLink  *)
(* exactly when all three are rejected, and when every participant is in   *)
(* the organizer's zone all three are returned.                            *)
C7_OneCandidateAt480 ==
    (Searched /\ duration = 480) =>
        /\ Len(candidates) = 3
        /\ \A n \in 1..3 : candidates[n].day = n - 1 /\ candidates[n].hour = 9
        /\ (\A k \in 1..Len(resolvedTzs) : ZoneOf(resolvedTzs[k]) = ZoneOf(UserTz))
               => Len(slots) = 3
        /\ Done => (EmptyState <=> slots = <<>>)
        /\ Done => (res.meetingLink # <<>> <=> slots # <<>>)

\* a participant in the organizer's own zone and 480 minutes
C7_Witness ==
    /\ Done /\ Searched /\ duration = 480
    /\ Len(resolvedTzs) = 1
    /\ ZoneOf(resolvedTzs[1]) = ZoneOf(UserTz)
    /\ Len(res.slotsTableHtml.rows) = 3
    /\ res.meetingLink # <<>>

(* C8, as stated: New York, "london, tokyo" and 30 minutes return at least *)
(* one slot, with a New York start hour in [9,17) and London and Tokyo     *)
(* start and end hours in [9,17].                                          *)
C8_ScenarioASlot ==
    (Done /\ ScenarioA) =>
        \E i \in 1..Len(slots) :
            /\ slots[i].user.time.hour >= 9 /\ slots[i].user.time.hour < 17
            /\ \A k \in 1..Len(resolvedTzs) :
                   /\ HourAt(SlotStart(slots[i]), resolvedTzs[k]) \in 9..17
                   /\ HourAt(SlotEnd(slots[i]), resolvedTzs[k]) \in 9..17

(* C8, amended: New York, "london, tokyo" and 30 minutes return no slot at *)
(* any date: each of the 24 candidates fails the test in Tokyo, and the    *)
(* reply is the empty-state table with an empty meetingLink.               *)
C8_ScenarioANoSlot ==
    (Done /\ ScenarioA) =>
        /\ resolvedTzs = <<<<"E","u","r","o","p","e","/","L","o","n","d","o","n">>, <<"A","s","i","a","/","T","o","k","y","o">>>>
        /\ Len(candidates) = 24
        /\ \A n \in 1..Len(candidates) :
               ~(/\ HourAt(candidates[n].start.ts, <<"A","s","i","a","/","T","o","k","y","o">>) >= 9
                 /\ HourAt(candidates[n].end.ts, <<"A","s","i","a","/","T","o","k","y","o">>) <= 17)
        /\ slots = <<>>
        /\ EmptyState

\* scenario A, searched across a daylight-saving switch of New York
C8_Witness ==
    /\ Done /\ ScenarioA /\ Searched
    /\ clock.season = "usForward"
    /\ res.slotsTableHtml.kind = "table"

(* C9: UTC, "sydney" and 60 minutes return no slot: the reply is the       *)
(* empty-state table with an empty meetingLink.                            *)
C9_ScenarioBNoSlot ==
    (Done /\ ScenarioB) => (slots = <<>> /\ EmptyState)

(* C10: the returned slots are in strictly increasing order of their       *)
(* organizer-local (day, hour) and of their start instant, so none appears *)
(* twice; the rows of the table are in the same order.                     *)
C10_Chronological ==
    /\ \A i \in 1..(Len(slots) - 1) :
           LET a == slots[i].user.time
               b == slots[i + 1].user.time
           IN  /\ a.date < b.date \/ (a.date = b.date /\ a.hour < b.hour)
               /\ SlotStart(slots[i]) < SlotStart(slots[i + 1])
    /\ (Done /\ Searched /\ slots # <<>>) =>
           /\ Len(res.slotsTableHtml.rows) = Len(slots)
           /\ \A i \in 1..Len(slots) :
                  res.slotsTableHtml.rows[i].cells[1] = slots[i].user

\* slots of two hours of one day and of two days
C10_Witness ==
    /\ Done
    /\ \E i, j \in 1..Len(slots) :
           /\ slots[i].user.time.date = slots[j].user.time.date
           /\ slots[i].user.time.hour < slots[j].user.time.hour
    /\ \E i, j \in 1..Len(slots) :
           slots[i].user.time.date < slots[j].user.time.date


----------------------------------------------------------------------------
(* What the further claims speak of *)

\* the test of the acceptance rule on a candidate, for every participant
Accepted(c) ==
    \A k \in 1..Len(resolvedTzs) :
        /\ HourAt(c.start.ts, resolvedTzs[k]) >= 9
        /\ HourAt(c.end.ts, resolvedTzs[k]) <= 17

\* the accepted candidates, in the order of the search
AcceptedSeq == SelectSeq(candidates, Accepted)

\* decodeURIComponent, the inverse of the encoding of the link's parameters
RECURSIVE PercentDecode(_)
PercentDecode(s) ==
    IF s = <<>> THEN <<>>
    ELSE IF Head(s) = "%"
    THEN <<CHOOSE c \in DOMAIN HexOf : HexOf[c] = <<s[2], s[3]>>>>
             \o PercentDecode(SubSeq(s, 4, Len(s)))
    ELSE <<Head(s)>> \o PercentDecode(Tail(s))

----------------------------------------------------------------------------
(* C11: the meetingLink is non-empty exactly when a candidate was          *)
(* accepted, and it is then the link of the earliest accepted candidate:   *)
(* it carries the organizer zone, that candidate's start instant and the   *)
(* duration of the search.                                                 *)
C11_LinkOfFirstSlot ==
    /\ (Done /\ ~Searched) => res.meetingLink = <<>>
    /\ (Done /\ Searched) =>
           /\ res.meetingLink # <<>> <=> AcceptedSeq # <<>>
           /\ res.meetingLink # <<>> =>
                  LET acc == AcceptedSeq
                      first == acc[1]
                      link == res.meetingLink[1]
                  IN  /\ Len(res.meetingLink) = 1
                      /\ PercentDecode(link.tz) = UserTz
                      /\ link.start.local - link.start.offset = first.start.ts
                      /\ link.start.local = LocalAt(first.start.ts, UserTz)
                      /\ \A m \in 1..Len(acc) : first.start.ts <= acc[m].start.ts
                      /\ link.duration = duration

\* several slots, and an organizer zone whose name the link has to encode
C11_Witness ==
    /\ Done /\ Searched
    /\ Len(slots) >= 2
    /\ res.meetingLink # <<>>
    /\ res.meetingLink[1].tz # UserTz
    /\ res.meetingLink[1] # slots[Len(slots)].link

\* both required fields given, and the organizer's zone and every resolved
\* participant zone valid
AllZonesValid ==
    /\ ~BadField(req.userTimezone) /\ ~BadField(req.leadLocations)
    /\ IsValidZone(UserTz)
    /\ \A k \in 1..Len(resolvedTzs) : IsValidZone(resolvedTzs[k])

(* C12: when every zone is valid and no candidate is accepted, the answer  *)
(* has status 200 and a table of the header row and exactly one no-overlap *)
(* row that spans 1 + the number of resolved participants columns; no      *)
(* error field is sent.                                                    *)
C12_EmptyStateRow ==
    (Done /\ AllZonesValid /\ AcceptedSeq = <<>>) =>
        /\ res.status = 200
        /\ "error" \notin res.fields /\ res.error = ""
        /\ res.slotsTableHtml.kind = "table"
        /\ Len(res.slotsTableHtml.header) = 1 + Len(resolvedTzs)
        /\ Len(res.slotsTableHtml.rows) = 1
        /\ res.slotsTableHtml.rows[1].text
               = "No overlapping slots found for the next 3 days."
        /\ res.slotsTableHtml.rows[1].cells = <<>>
        /\ res.slotsTableHtml.rows[1].colspan = 1 + Len(resolvedTzs)

\* two participants, candidates examined and none accepted
C12_Witness ==
    /\ Done /\ AllZonesValid /\ AcceptedSeq = <<>>
    /\ candidates # <<>>
    /\ Len(resolvedTzs) = 2
    /\ res.slotsTableHtml.rows[1].colspan = 3

\* the timestamp a table cell shows for the instant ts in the zone tz
StampAt(ts, tz) ==
    [date |-> LocalAt(ts, tz) \div (24 * 60),
     hour |-> HourAt(ts, tz),
     minute |-> LocalAt(ts, tz) % 60]

\* the rows of the table that report a slot
SlotRows ==
    {r \in 1..Len(res.slotsTableHtml.rows) : res.slotsTableHtml.rows[r].cells # <<>>}

(* C13: in a success response with N resolved participants the header has  *)
(* 1 + N columns, there is exactly one slot row per accepted candidate,    *)
(* and each slot row holds the organizer's timestamp followed by exactly N *)
(* participant timestamps, the i-th labelled with the zone of the i-th     *)
(* participant token of the request.                                       *)
C13_RowsAndColumns ==
    (Done /\ Searched) =>
        LET t == res.slotsTableHtml
            N == Len(leadTzs)
            acc == AcceptedSeq
        IN  /\ Len(resolvedTzs) = N
            /\ t.kind = "table"
            /\ Len(t.header) = 1 + N
            /\ t.header[1].text = "Your Time"
            /\ \A i \in 1..N :
                   /\ t.header[i + 1].n = i
                   /\ t.header[i + 1].tz = ResolveTz(leadTzs[i])
            /\ Cardinality(SlotRows) = Len(acc)
            /\ acc # <<>> => Len(t.rows) = Len(acc)
            /\ \A r \in SlotRows :
                   /\ Len(t.rows[r].cells) = 1 + N
                   /\ t.rows[r].cells[1].tz = UserTz
                   /\ t.rows[r].cells[1].time
                          = StampAt(acc[r].start.ts, UserTz)
                   /\ \A i \in 1..N :
                          t.rows[r].cells[i + 1].tz = ResolveTz(leadTzs[i])

\* two participants in different zones and several accepted slots
C13_Witness ==
    /\ Done /\ Searched
    /\ Len(resolvedTzs) = 2
    /\ resolvedTzs[1] # resolvedTzs[2]
    /\ Cardinality(SlotRows) >= 2

\* the instants a timestamp of the zone tz denotes: the local time less the
\* zone's standard or daylight-saving offset, where that offset is in force
Denoted(stamp, tz) ==
    LET local == stamp.date * (24 * 60) + stamp.hour * 60 + stamp.minute
    IN  {ts \in {local - ZoneOf(tz).std - shift : shift \in {0, 60}} :
            LocalAt(ts, tz) = local}

(* C14: round trip. In every slot row the organizer's timestamp denotes    *)
(* one instant, the start of the accepted candidate, and the i-th          *)
(* participant timestamp is that instant projected into the i-th           *)
(* participant's zone: the projection whose hour the acceptance rule       *)
(* tested, so its hour is at least 9.                                      *)
C14_RoundTrip ==
    (Done /\ Searched) =>
        LET acc == AcceptedSeq
        IN  \A r \in SlotRows :
            LET cells == res.slotsTableHtml.rows[r].cells
                instants == Denoted(cells[1].time, cells[1].tz)
            IN  /\ instants = {acc[r].start.ts}
                /\ \A i \in 1..Len(resolvedTzs) : \A ts \in instants :
                       /\ cells[i + 1].time = StampAt(ts, resolvedTzs[i])
                       /\ Denoted(cells[i + 1].time, cells[i + 1].tz) = {ts}
                       /\ cells[i + 1].time.hour = HourAt(ts, resolvedTzs[i])
                       /\ cells[i + 1].time.hour >= 9

\* a slot whose participant reads another local time than the organizer
C14_Witness ==
    /\ Done /\ Searched
    /\ \E r \in SlotRows :
           LET cells == res.slotsTableHtml.rows[r].cells
           IN  /\ Len(cells) = 3
               /\ cells[2].time # cells[1].time
               /\ cells[3].time # cells[2].time

\* the request in hand and the remembered one differ in nothing but, perhaps,
\* the callDuration, and were evaluated at the same clock reading
SameButDuration ==
    /\ prev.seen
    /\ prev.req.userTimezone = req.userTimezone
    /\ prev.req.leadLocations = req.leadLocations
    /\ prev.clock = clock

\* a callDuration that is absent or not a number
NoDuration(v) == v \in {Undefined, Str(<<"a","b","c">>)}

(* C15: a request whose callDuration is absent or non-numeric is searched  *)
(* with a duration of 30 minutes and answered exactly as the same request  *)
(* with callDuration 30 at the same clock reading; a callDuration that is  *)
(* a positive integer, a number or its decimal string, is the duration     *)
(* the search uses.                                                        *)
C15_DefaultDuration ==
    /\ (Done /\ thrown = "" /\ SameButDuration
           /\ \/ NoDuration(req.callDuration) /\ prev.req.callDuration = Num(30)
              \/ req.callDuration = Num(30) /\ NoDuration(prev.req.callDuration))
          => res = prev.res /\ slots = prev.slots
    /\ (Done /\ thrown = "" /\ Searched) =>
          /\ NoDuration(req.callDuration) => duration = 30
          /\ (req.callDuration.type = "number" /\ req.callDuration.num > 0)
                => duration = req.callDuration.num
          /\ req.callDuration = Str(<<"4","5">>) => duration = 45
          /\ candidates # <<>>
          /\ \A n \in 1..Len(candidates) :
                candidates[n].end.ts - candidates[n].start.ts = duration
          /\ \A i \in 1..Len(slots) : slots[i].link.duration = duration

\* a request without callDuration answered with slots, after the same
\* request with callDuration 30
C15_Witness ==
    /\ Done /\ thrown = "" /\ SameButDuration /\ Searched
    /\ req.callDuration = Undefined
    /\ prev.req.callDuration = Num(30)
    /\ slots # <<>>
    /\ res = prev.res

\* the participants of the request in hand have been resolved
Resolved == "resolve" \in stages /\ thrown = ""

(* C16: for every key of the city table, a participant token that is the   *)
(* key in any casing, with or without whitespace around it, resolves to    *)
(* the zone the table gives for the lowercase key, the zone the key itself *)
(* resolves to.                                                            *)
C16_CityAnyCasing ==
    \A k \in DOMAIN CityToTz :
        (Resolved /\ req.leadLocations.str \in CityVariants(CityToTz[k].city)) =>
            /\ resolvedTzs = <<CityToTz[k].tz>>
            /\ resolvedTzs = ResolvedTzs(<<CityToTz[k].city>>)
            /\ IsValidZone(resolvedTzs[1])
            /\ Done => Searched

\* "  New York " resolved and searched
C16_Witness ==
    /\ Done /\ Searched
    /\ req.leadLocations.str = <<" "," ","N","e","w"," ","Y","o","r","k"," ">>
    /\ resolvedTzs = <<<<"A","m","e","r","i","c","a","/","N","e","w","_","Y","o","r","k">>>>

(* C17: an organizer zone given as a city name of the city table is        *)
(* resolved to the city's zone like a participant token, so with valid     *)
(* participant zones the search runs and the answer is the slot table,     *)
(* not the invalid-timezone payload.                                       *)
C17_OrganizerCityName ==
    (Done /\ req.userTimezone.type = "string"
          /\ CityLookup(ToLowerCase(Trim(UserTz))) # <<>>
          /\ ~BadField(req.leadLocations)
          /\ resolvedTzs # <<>>
          /\ \A k \in 1..Len(resolvedTzs) : IsValidZone(resolvedTzs[k])) =>
        /\ Searched
        /\ res.slotsTableHtml.kind = "table"
        /\ \A n \in 1..Len(candidates) :
              candidates[n].start.zone = ZoneOf(CityLookup(ToLowerCase(Trim(UserTz))))

\* no request in hand: nothing but the observer's memory of an earlier
\* request differs from the state the server started in
AtRest ==
    /\ req = NoRequest /\ duration = 0 /\ leadTzs = <<>> /\ resolvedTzs = <<>>
    /\ clock = NoClock /\ candidates = <<>> /\ slots = <<>>
    /\ res = NoResponse /\ stages = {} /\ thrown = ""

ResponseTexts ==
    {res.error, res.slotsTableHtml.text}
        \cup {res.slotsTableHtml.rows[r].text : r \in 1..Len(res.slotsTableHtml.rows)}
        \cup {res.slotsTableHtml.header[h].text : h \in 1..Len(res.slotsTableHtml.header)}

(* C19: every request is answered with a well-formed response: a 400 with  *)
(* a non-empty error message, sent only for a missing field, or a 200 that *)
(* carries both slotsTableHtml and meetingLink. An error thrown anywhere   *)
(* in the handler is answered with the 200 shape, the fixed server-error   *)
(* message and an empty meetingLink, and no response carries the text of   *)
(* the error thrown.                                                       *)
C19_WellFormedResponse ==
    Done =>
        /\ \/ /\ res.status = 400
              /\ res.fields = {"error"}
              /\ res.error # ""
              /\ BadField(req.userTimezone) \/ BadField(req.leadLocations)
              /\ thrown = ""
           \/ /\ res.status = 200
              /\ res.fields = {"slotsTableHtml", "meetingLink"}
              /\ res.slotsTableHtml.kind \in {"div", "table"}
              /\ res.slotsTableHtml.kind = "div" =>
                    res.slotsTableHtml.text # "" /\ res.meetingLink = <<>>
        /\ thrown # "" =>
              /\ res.status = 200
              /\ res.slotsTableHtml.kind = "div"
              /\ res.slotsTableHtml.text = "Server error: Unable to find meeting slots."
              /\ res.meetingLink = <<>>
        /\ ErrorTexts \cap ResponseTexts = {}

\* an error thrown after the search had found slots
C19_Witness ==
    /\ Done /\ thrown # "" /\ Searched
    /\ slots # <<>>
    /\ res.status = 200
    /\ res.meetingLink = <<>>

\* the candidates of the day-th day of the search
CandidatesOfDay(day) ==
    {n \in 1..Len(candidates) :
        StampAt(candidates[n].start.ts, UserTz).date = TodayOfUser + day}

(* C20: whatever duration the handler accepts, it evaluates at most 8      *)
(* hourly candidates on each of the 3 days and returns at most 3 x 8 = 24  *)
(* slots.                                                                  *)
C20_AtMostEightPerDay ==
    (Done /\ Searched) =>
        /\ \A day \in 0..2 : Cardinality(CandidatesOfDay(day)) <= 8
        /\ Len(candidates) <= 24
        /\ Len(slots) <= 24

(* C21: the organizer's own business window holds for every duration the   *)
(* handler accepts: every returned slot starts, in the organizer's zone,   *)
(* at or after 09:00 and before 17:00, and ends after it starts and at or  *)
(* before 17:00 of the same organizer-local day.                           *)
C21_OrganizerWindow ==
    (Done /\ Searched) =>
        \A i \in 1..Len(slots) :
            LET ls == LocalAt(SlotStart(slots[i]), UserTz)
                le == LocalAt(SlotEnd(slots[i]), UserTz)
            IN  /\ ls % (24 * 60) >= 9 * 60
                /\ ls % (24 * 60) < 17 * 60
                /\ le > ls
                /\ le \div (24 * 60) = ls \div (24 * 60)
                /\ le % (24 * 60) <= 17 * 60

\* the candidates that qualify and whose projections did not throw
Qualifying ==
    {n \in 1..Len(candidates) :
        Accepted(candidates[n]) /\ \A k \in 1..Len(resolvedTzs) : <<n, k>> \notin projFaults}

----------------------------------------------------------------------------
(* The tokens of leadLocations, read off the string by position *)

Blank == {" ", "\t"}

\* the positions just before each piece: 0 and the commas
PieceStarts(s) == {0} \cup {i \in 1..Len(s) : s[i] = ","}

\* the piece that begins after position b and runs to the next comma
PieceAfter(s, b) ==
    LET ends == {i \in (b + 1)..Len(s) : s[i] = ","} \cup {Len(s) + 1}
        e == CHOOSE x \in ends : \A y \in ends : x <= y
    IN  SubSeq(s, b + 1, e - 1)

\* a piece without the whitespace around it
Stripped(t) ==
    LET keep == {i \in 1..Len(t) : t[i] \notin Blank}
    IN  IF keep = {} THEN <<>>
        ELSE SubSeq(t, CHOOSE x \in keep : \A y \in keep : x <= y,
                       CHOOSE x \in keep : \A y \in keep : x >= y)

\* the non-empty tokens of s, in the order they are written
TokensOf(s) ==
    LET starts == {b \in PieceStarts(s) : Stripped(PieceAfter(s, b)) # <<>>}
    IN  [i \in 1..Cardinality(starts) |->
            Stripped(PieceAfter(s,
                CHOOSE b \in starts : Cardinality({a \in starts : a < b}) = i - 1))]

\* the city table's zone for a token, whatever its casing, or <<>>
TableZone(t) ==
    LET lower == [i \in 1..Len(t) |-> LowerChar(t[i])]
        hits == {k \in DOMAIN CityToTz : CityToTz[k].city = lower}
    IN  IF hits = {} THEN <<>> ELSE CityToTz[CHOOSE k \in hits : TRUE].tz

ReturnedCandidate(c) ==
    \E i \in 1..Len(slots) : slots[i].user.time = StampAt(c.start.ts, UserTz)

\* the minute of the hour of the instant ts in the zone tz
MinuteAt(ts, tz) == LocalAt(ts, tz) % 60

PrevTodayOfUser ==
    (prev.clock.ts + ZoneOffset(ZoneOf(UserTz), prev.clock.season, prev.clock.ts))
        \div (24 * 60)

\* the start hours, in the organizer's zone, of the candidates of a day
HoursOfDay(day) ==
    {StampAt(candidates[n].start.ts, UserTz).hour : n \in CandidatesOfDay(day)}

(* C26: the search depends on the current date in the organizer's zone,    *)
(* not on the time of day. The day of the request has the candidate hours  *)
(* of the days after it; a candidate of that day that starts before the    *)
(* clock reading is returned when it passes the acceptance rule, and is    *)
(* the meetingLink when it is the first to pass; and the same request at   *)
(* another time of the same organizer-local date gets the same answer.     *)
C26_DateNotTimeOfDay ==
    (Done /\ Searched /\ thrown = "") =>
        /\ HoursOfDay(0) = HoursOfDay(1)
        /\ \A n \in CandidatesOfDay(0) :
              (candidates[n].start.ts < clock.ts /\ Accepted(candidates[n]))
                  => ReturnedCandidate(candidates[n])
        /\ AcceptedSeq # <<>> =>
              /\ res.meetingLink # <<>>
              /\ res.meetingLink[1].start.local - res.meetingLink[1].start.offset
                     = AcceptedSeq[1].start.ts
        /\ (prev.seen /\ prev.req = req /\ prev.clock.season = clock.season
                /\ PrevTodayOfUser = TodayOfUser)
              => slots = prev.slots /\ res = prev.res

\* the first slot started before the clock was read, it is the meetingLink,
\* and the same request earlier that day got the same slots
C26_Witness ==
    /\ Done /\ Searched /\ thrown = ""
    /\ slots # <<>>
    /\ SlotStart(slots[1]) < clock.ts
    /\ res.meetingLink = <<slots[1].link>>
    /\ prev.seen /\ prev.req = req /\ prev.clock.season = clock.season
    /\ prev.clock.ts < clock.ts
    /\ PrevTodayOfUser = TodayOfUser
    /\ slots = prev.slots

----------------------------------------------------------------------------
(* /generate-mail *)

MailDone == mailPc = "done"
MailFailed == MailDone /\ mailUpstream.kind # "none" /\ ~Generated(mailUpstream)
LastMailReply == mailRes[Len(mailRes)]

RateLimited == mailUpstream.kind = "http" /\ mailUpstream.status = 429
Unreachable ==
    mailUpstream.kind = "code" /\ mailUpstream.code \in {"ENOTFOUND", "ECONNREFUSED"}
TimedOut ==
    mailUpstream.kind = "code" /\ mailUpstream.code \in {"ETIMEDOUT", "ECONNABORTED"}
Unauthorized == mailUpstream.kind = "http" /\ mailUpstream.status \in {401, 403}

(* C27: each class of failure of the AI service has its own status. A 429  *)
(* from the service is answered with 429, a connection failure (ENOTFOUND, *)
(* ECONNREFUSED) or a timeout with 503, a 401 or 403 with the 500 of the   *)
(* API-configuration error, and the generic 500 is sent for none of these. *)
C27_StatusPerFailureClass ==
    MailFailed =>
        /\ RateLimited => LastMailReply.status = 429
        /\ (Unreachable \/ TimedOut) => LastMailReply.status = 503
        /\ Unauthorized =>
              LastMailReply = MailReply(500,
                  <<"A","P","I"," ","c","o","n","f","i","g","u","r","a","t","i","o","n"," ","e","r","r","o","r","."," ","P","l","e","a","s","e"," ","c","h","e","c","k"," ","s","e","r","v","e","r"," ","s","e","t","t","i","n","g","s",".">>, <<>>)
        /\ LastMailReply.error = <<"F","a","i","l","e","d"," ","t","o"," ","g","e","n","e","r","a","t","e"," ","e","m","a","i","l","."," ","P","l","e","a","s","e"," ","t","r","y"," ","a","g","a","i","n",".">>
              => ~(RateLimited \/ Unreachable \/ TimedOut \/ Unauthorized)

\* a userPrompt the handler passes on: a string of at most 2000 characters
\* that has a character other than whitespace
GoodPrompt(v) ==
    /\ v.type = "string"
    /\ Len(v.str) <= MaxPromptLength
    /\ \E i \in 1..Len(v.str) : v.str[i] \notin Blank

(* C28: the AI service is called only with a non-empty trimmed prompt      *)
(* taken from a userPrompt of at most 2000 characters, and at most once;   *)
(* a userPrompt that is missing, not a string, blank or longer than 2000   *)
(* characters before trimming is answered with 400 and no call; and a      *)
(* request that has been handled has received exactly one response.        *)
C28_CallOnlyWithGoodPrompt ==
    /\ Len(mailCalls) <= 1
    /\ \A i \in 1..Len(mailCalls) :
          /\ GoodPrompt(mailReq)
          /\ mailCalls[i] # <<>>
          /\ mailCalls[i][1] \notin Blank
          /\ mailCalls[i][Len(mailCalls[i])] \notin Blank
          /\ mailCalls[i] = Stripped(mailReq.str)
    /\ MailDone =>
          /\ Len(mailRes) = 1
          /\ ~GoodPrompt(mailReq) => mailRes[1].status = 400 /\ mailCalls = <<>>
          /\ GoodPrompt(mailReq) => Len(mailCalls) = 1 /\ mailRes[1].status # 400
    /\ ~MailDone => mailRes = <<>>

\* a padded prompt of exactly 2000 characters was sent on, trimmed, and a
\* generated email came back
C28_Witness ==
    /\ MailDone
    /\ Len(mailReq.str) = 2000
    /\ mailCalls = <<Filler(1998)>>
    /\ Len(mailRes) = 1
    /\ mailRes[1].status = 200

(* C29: every message /generate-linkedin-messages returns has a text of at  *)
(* most 300 characters: a generated text longer than 300 characters comes  *)
(* back as its first 297 characters followed by '...', and a text of 300   *)
(* characters or fewer comes back unchanged.                               *)
C29_AtMost300Characters ==
    \A k \in 1..Len(liRes) :
        /\ \A i \in 1..Len(liRes[k].messages) : Len(liRes[k].messages[i]) <= 300
        /\ liRes[k].status = Ok =>
              /\ Len(liRes[k].messages) = Len(liGenerated)
              /\ \A i \in 1..Len(liGenerated) :
                    LET text == liGenerated[i].str
                        back == liRes[k].messages[i]
                    IN  IF Len(text) > 300
                        THEN /\ Len(back) = 300
                             /\ \A j \in 1..297 : back[j] = text[j]
                             /\ \A j \in 298..300 : back[j] = "."
                        ELSE back = text

\* a text of 301 characters came back cut, next to one of exactly 300
\* characters that came back whole
C29_Witness ==
    /\ liPc = "done"
    /\ Len(liRes) = 1
    /\ liRes[1].status = Ok
    /\ Len(liGenerated) = 2
    /\ Len(liGenerated[1].str) = 301
    /\ Len(liGenerated[2].str) = 300
    /\ Len(liRes[1].messages[1]) = 300
    /\ liRes[1].messages[2] = liGenerated[2].str
====
